---- MODULE Spec2Model ----
(***************************************************************************)
(* A model of the civo-csi driver: the controller's attach/detach          *)
(* reconciliation against the provider's asynchronous volume state         *)
(* machine, volume creation, deletion and expansion, the node stage and    *)
(* unstage pipeline, the pre-stop drain hook and the hanging-volume        *)
(* sweep.  Each part has its own                                           *)
(* specification over its own variables; the variables of the other        *)
(* parts stay at their initial values.                                     *)
(***************************************************************************)
EXTENDS Integers, Sequences, FiniteSets, TLC

VARIABLES
    volumes,    \* provider: volume id -> [name, size, status, instance, cluster]
    ctl,        \* the controller RPC in flight (attach/detach)
    pvs,        \* orchestrator: names of the PersistentVolumes
    clusterID,  \* d.ClusterID, from CIVO_CLUSTER_ID
    sweep,      \* the hanging-volume sweep in progress
    attachments,  \* orchestrator: VolumeAttachment name -> node name
    hook,         \* the pre-stop hook's position and outcome
    informer,     \* the VolumeAttachment informer: its state and its store
    events,       \* events the informer has yet to hand to the handlers
    informerCh,   \* "open" or "closed": the informer's stop channel
    ctxDone,      \* TRUE once the hook's context is cancelled
    updates,      \* VolumeAttachment updates made so far
    deviceAttached,  \* host: the volume's device is under /dev/disk/by-id
    formatted,       \* host: the device carries a filesystem
    mounts,          \* host: mountpoint -> number of mounts on it
    stage,           \* the node RPCs in flight, one per gRPC worker
    formatCalls,     \* invocations of Format on the device so far
    stageCalls,      \* node RPCs started so far
    staged,          \* a NodeStageVolume has succeeded and no NodeUnstageVolume since
    quota,           \* provider: the account's quota, as GetQuota reports it
    testMode,        \* d.TestMode
    create,          \* the CreateVolume calls in flight, one per gRPC worker
    createStarted,   \* CreateVolume calls started so far
    first,           \* per name, the first CreateVolume call that succeeded
    del,             \* the DeleteVolume call in flight
    deleted,         \* ids for which a DeleteVolume call has succeeded
    expand,          \* the ControllerExpandVolume call in flight
    resizeCalls,     \* provider ResizeVolume calls made so far
    lifecycleStarted, \* DeleteVolume and ControllerExpandVolume calls started so far
    signalled,       \* the process has received SIGINT or SIGTERM
    mainCtxDone,     \* TRUE once the context made in main's run is cancelled
    run,             \* Driver.Run: its position, the gRPC server and the reconciler
    probe,           \* the last Probe call and the provider's reachability at it
    volumeList,         \* the ListVolumes call that has answered and not yet returned
    sizing,          \* the capacity range whose size in gigabytes was last worked out
    capacity,        \* the GetCapacity call that has answered and not yet returned
    snapshots,       \* provider: the volume snapshots, each [id, name, vol]
    snap             \* the CreateSnapshot call in flight

vars == <<volumes, ctl, pvs, clusterID, sweep,
          attachments, hook, informer, events, informerCh, ctxDone, updates,
          deviceAttached, formatted, mounts, stage, formatCalls, stageCalls, staged,
          quota, testMode, create, createStarted, first,
          del, deleted, expand, resizeCalls, lifecycleStarted,
          signalled, mainCtxDone, run, probe, volumeList, sizing, capacity,
          snapshots, snap>>

\* the variables of each part; the provider's volumes are shared
hangingVars == <<pvs, clusterID, sweep>>
preStopVars == <<attachments, hook, informer, events, informerCh, ctxDone, updates>>

nodeVars == <<deviceAttached, formatted, mounts, stage, formatCalls, stageCalls, staged>>

createVars == <<quota, testMode, create, createStarted, first>>

lifecycleVars == <<del, deleted, expand, resizeCalls, lifecycleStarted>>

mainVars == <<signalled, mainCtxDone, run, probe>>

snapshotVars == <<snapshots, snap>>
capacityVars == <<volumeList, sizing, capacity, snapshotVars>>

\* what the attach/detach requests leave alone, besides the provider
notAttach == <<hangingVars, preStopVars, nodeVars, createVars, lifecycleVars, mainVars, capacityVars>>

\* what the hanging-volume sweep leaves alone, besides the provider
notHanging == <<ctl, preStopVars, nodeVars, createVars, lifecycleVars, mainVars, capacityVars>>

\* what the pre-stop hook leaves alone
notPreStop == <<volumes, ctl, hangingVars, nodeVars, createVars, lifecycleVars, mainVars, capacityVars>>

\* what the node RPCs leave alone
notNode == <<volumes, ctl, hangingVars, preStopVars, createVars, lifecycleVars, mainVars, capacityVars>>

\* what CreateVolume leaves alone, besides the provider
notCreate == <<ctl, hangingVars, preStopVars, nodeVars, lifecycleVars, mainVars, capacityVars>>

\* what DeleteVolume and ControllerExpandVolume leave alone, besides the provider
notLifecycle == <<ctl, hangingVars, preStopVars, nodeVars, createVars, mainVars, capacityVars>>

\* what Driver.Run and the RPCs of the identity service leave alone, besides
\* the provider and the sweep
notRun == <<ctl, preStopVars, nodeVars, createVars, lifecycleVars, capacityVars>>

----------------------------------------------------------------------------
(* Provider data model *)

Statuses == {"creating", "available", "attaching", "attached", "detaching", "resizing", "deleting"}

\* instances of the Kubernetes cluster the driver manages
ClusterInstances == {"n1", "n2"}

\* node ids a request may carry: members, a non-member, and the empty string
RequestNodes == ClusterInstances \cup {"n3", ""}

\* values the provider may hold in a volume's instance_id
InstanceIds == ClusterInstances \cup {""}

\* the volume the attach/detach requests name
VolId == "v1"

\* reads counts the GetVolume calls that returned a volume; first* is what the
\* first of them returned, seen* what the last of them returned
NoCall == [op |-> "none", node |-> "", pc |-> "idle", reads |-> 0,
           firstStatus |-> "", firstInstance |-> "",
           seenStatus |-> "", seenInstance |-> "", notFound |-> FALSE,
           attachCalls |-> 0, detachCalls |-> 0, result |-> "none"]

VolRec(status, instance) ==
    [name |-> "pvc-a", size |-> 1, status |-> status, instance |-> instance, cluster |-> "c1"]

\* d.CivoClient.GetVolume: the volume read, a not-found error, or another error
GetVolumeOutcomes(id) ==
    (IF id \in DOMAIN volumes THEN {[kind |-> "ok", status |-> volumes[id].status,
                                     instance |-> volumes[id].instance]}
                              ELSE {[kind |-> "notfound", status |-> "", instance |-> ""]})
    \cup {[kind |-> "error", status |-> "", instance |-> ""]}

Done(c, res) == [c EXCEPT !.pc = "done", !.result = res]

Seen(c, r) == [c EXCEPT !.reads = @ + 1,
                        !.firstStatus = IF c.reads = 0 THEN r.status ELSE @,
                        !.firstInstance = IF c.reads = 0 THEN r.instance ELSE @,
                        !.seenStatus = r.status, !.seenInstance = r.instance]

\* a GetVolume that returned no volume
Failed(c, r) == Done([c EXCEPT !.notFound = (r.kind = "notfound")], "Error")

\* no sweep is running
NoSweep == [pc |-> "idle", listed |-> <<>>, toDelete |-> <<>>, issued |-> {}, result |-> "none"]

\* the hook has not been invoked
NoHook ==
    [pc |-> "start", node |-> "none", taints |-> {}, result |-> "none", via |-> "none",
     sawNone |-> FALSE]

\* the parts that a specification leaves out, at rest
IdleHanging == pvs = {} /\ clusterID = "c1" /\ sweep = NoSweep

IdlePreStop ==
    /\ attachments = <<>> /\ hook = NoHook
    /\ informer = [state |-> "created", store |-> <<>>]
    /\ events = <<>> /\ informerCh = "open" /\ ctxDone = FALSE /\ updates = 0

\* the most node RPCs the gRPC server runs at the same time
MaxWorkers == 2

Workers == 1..MaxWorkers

\* a worker with no node RPC
NoStage ==
    [op |-> "none", pc |-> "idle", result |-> "none",
     again |-> FALSE, attached |-> FALSE, blkid |-> "none",
     formatInvoked |-> FALSE, mountInvoked |-> FALSE,
     targetExisted |-> FALSE, atRemove |-> FALSE, unmountInvoked |-> FALSE]

IdleNode ==
    /\ deviceAttached = FALSE /\ formatted = FALSE /\ mounts = <<>>
    /\ stage = [w \in Workers |-> NoStage]
    /\ formatCalls = 0 /\ stageCalls = 0 /\ staged = FALSE

\* names a CreateVolume request may carry; "" is a missing name
CreateNames == {"", "pvc-a", "pvc-b"}

\* an absent req.CapacityRange
NilRange == [present |-> FALSE, required |-> 0, limit |-> 0]

\* a worker with no CreateVolume call
\* the quota before any GetQuota
NoQuota ==
    [DiskGigabytesLimit |-> 0, DiskGigabytesUsage |-> 0,
     DiskVolumeCountLimit |-> 0, DiskVolumeCountUsage |-> 0]

NoCreate ==
    [pc |-> "idle", name |-> "", range |-> NilRange, source |-> "none", desired |-> 0,
     id |-> "", tries |-> 0, made |-> 0, found |-> FALSE, result |-> "none",
     cancelled |-> FALSE, reads |-> 0, seen |-> "none", endedBy |-> "none",
     existing |-> 0, size |-> 0, capacityGB |-> 0,
     quotaReads |-> 0, quotaSeen |-> NoQuota, deficit |-> 0,
     caps |-> "none", lists |-> 0, before |-> {}]

\* no call for the name has succeeded yet
NoFirst == [set |-> FALSE, range |-> NilRange, id |-> "", made |-> 0, found |-> FALSE]

IdleCreate ==
    /\ quota = [DiskGigabytesLimit |-> 0, DiskGigabytesUsage |-> 0,
                DiskVolumeCountLimit |-> 0, DiskVolumeCountUsage |-> 0]
    /\ testMode = FALSE
    /\ create = [w \in Workers |-> NoCreate]
    /\ createStarted = 0
    /\ first = [n \in CreateNames |-> NoFirst]

\* no DeleteVolume call
NoDelete == [pc |-> "idle", id |-> "", existed |-> FALSE, answer |-> "none", result |-> "none"]

\* no ControllerExpandVolume call
NoExpand ==
    [pc |-> "idle", id |-> "", range |-> NilRange, fetched |-> FALSE,
     desired |-> 0, current |-> 0, status |-> "none",
     resizes |-> 0, resized |-> "none", tries |-> 0, reads |-> 0, seen |-> "none",
     capacityGB |-> 0, nodeExpansionRequired |-> FALSE, result |-> "none"]

IdleLifecycle ==
    /\ del = NoDelete /\ deleted = {}
    /\ expand = NoExpand /\ resizeCalls = 0
    /\ lifecycleStarted = 0

\* Driver.Run not yet called: no gRPC server, no reconciler
NoRun ==
    [pc |-> "idle", result |-> "none", grpcServer |-> "none", serve |-> "none",
     inflight |-> 0, reconciler |-> "none"]

\* no Probe call yet
NoProbe == [called |-> FALSE, pingErr |-> FALSE, err |-> "none", ready |-> "none"]

\* no ListVolumes call
NoListing == [pc |-> "idle", result |-> "none", entries |-> <<>>]

\* no size worked out
NoSizing == [set |-> FALSE, range |-> NilRange, desired |-> 0]

\* no GetCapacity call
NoCapacity == [pc |-> "idle", result |-> "none", availableGB |-> 0]

\* no CreateSnapshot call
NoSnap ==
    [pc |-> "idle", name |-> "", source |-> "", result |-> "none", id |-> 0,
     same |-> FALSE, other |-> FALSE, createCalled |-> FALSE]

IdleMain ==
    /\ signalled = FALSE /\ mainCtxDone = FALSE /\ run = NoRun /\ probe = NoProbe
    /\ volumeList = NoListing /\ sizing = NoSizing /\ capacity = NoCapacity
    /\ snapshots = {} /\ snap = NoSnap

----------------------------------------------------------------------------
(* The provider changes a volume on its own or at another client's request *)

ProviderTransition ==
    /\ VolId \in DOMAIN volumes
    /\ \E s \in Statuses, i \in InstanceIds :
          /\ <<s, i>> # <<volumes[VolId].status, volumes[VolId].instance>>
          /\ volumes' = [volumes EXCEPT ![VolId].status = s, ![VolId].instance = i]
    /\ UNCHANGED <<ctl, notAttach>>

----------------------------------------------------------------------------
(* ControllerPublishVolume *)

\* argument checks, cluster lookup and membership of the node
PublishBegin ==
    /\ ctl.pc = "idle"
    /\ \E node \in RequestNodes, hasCap \in BOOLEAN, hasId \in BOOLEAN, clusterOk \in BOOLEAN :
          LET c == [NoCall EXCEPT !.op = "publish", !.node = node] IN
          ctl' = IF ~hasCap \/ ~hasId \/ node = "" THEN Done(c, "InvalidArgument")
                 ELSE IF ~clusterOk THEN Done(c, "Internal")
                 ELSE IF node \notin ClusterInstances THEN Done(c, "NotFound")
                 ELSE [c EXCEPT !.pc = "fetch"]
    /\ UNCHANGED <<volumes, notAttach>>

\* a refusal that lets a volume attaching elsewhere through
MutPublishRejects(status, instance, node) ==
    status # "available" /\ status # "attaching" /\ instance # node

\* the volume is neither available nor this node's: the request is refused
PublishRejects(status, instance, node) ==
    status # "available" /\ instance # node

\* the attach decision on the fetched volume: TRUE when AttachVolume is to be called
PublishNeedsAttach(status, instance, node) ==
    ~(instance = node /\ status # "attaching")

\* the first GetVolume and the decisions taken on it
PublishGetVolume ==
    /\ ctl.op = "publish" /\ ctl.pc = "fetch"
    /\ \E r \in GetVolumeOutcomes(VolId) :
          LET c == Seen(ctl, r) IN
          ctl' = IF r.kind # "ok" THEN Failed(ctl, r)
                 ELSE IF r.instance = ctl.node /\ r.status = "attached" THEN Done(c, "OK")
                 ELSE IF PublishRejects(r.status, r.instance, ctl.node) THEN Done(c, "Unavailable")
                 ELSE IF PublishNeedsAttach(r.status, r.instance, ctl.node) THEN [c EXCEPT !.pc = "attach"]
                 ELSE [c EXCEPT !.pc = "settle"]
    /\ UNCHANGED <<volumes, notAttach>>

\* d.CivoClient.AttachVolume: refused, or accepted by the provider
PublishAttach ==
    /\ ctl.op = "publish" /\ ctl.pc = "attach"
    /\ UNCHANGED notAttach
    /\ \/ /\ ctl' = Done([ctl EXCEPT !.attachCalls = @ + 1], "Error")
          /\ UNCHANGED <<volumes, notAttach>>
       \/ /\ VolId \in DOMAIN volumes
          /\ \E s \in {"attaching", "attached"} :
                volumes' = [volumes EXCEPT ![VolId].status = s, ![VolId].instance = ctl.node]
          /\ ctl' = [ctl EXCEPT !.attachCalls = @ + 1, !.pc = "settle"]

\* a verdict that forgets to compare the instance
MutPublishVerdict(status, instance, node) ==
    IF status # "attached" THEN "Unavailable" ELSE "OK"

\* the verdict on the volume fetched again after the settle interval
PublishVerdict(status, instance, node) ==
    IF status # "attached" THEN "Unavailable"
    ELSE IF instance # node THEN "Unavailable"
    ELSE "OK"

\* time.Sleep, then the second GetVolume
PublishRefetch ==
    /\ ctl.op = "publish" /\ ctl.pc = "settle"
    /\ \E r \in GetVolumeOutcomes(VolId) :
          ctl' = IF r.kind # "ok" THEN Failed(ctl, r)
                 ELSE Done(Seen(ctl, r), PublishVerdict(r.status, r.instance, ctl.node))
    /\ UNCHANGED <<volumes, notAttach>>

ControllerPublishVolume ==
    PublishBegin \/ PublishGetVolume \/ PublishAttach \/ PublishRefetch

----------------------------------------------------------------------------
(* ControllerUnpublishVolume *)

UnpublishBegin ==
    /\ ctl.pc = "idle"
    /\ \E node \in RequestNodes, hasId \in BOOLEAN :
          LET c == [NoCall EXCEPT !.op = "unpublish", !.node = node] IN
          ctl' = IF ~hasId THEN Done(c, "InvalidArgument") ELSE [c EXCEPT !.pc = "fetch"]
    /\ UNCHANGED <<volumes, notAttach>>

\* a check that detaches whatever node holds the volume
MutUnpublishNothingToDo(status, instance, node) ==
    status = "available"

\* a check that takes every fetched volume for one in no need of detaching
MutUnpublishAlwaysDone(status, instance, node) == TRUE

\* TRUE when the fetched volume needs no detaching for this request
UnpublishNothingToDo(status, instance, node) ==
    status = "available" \/ instance # node

UnpublishNeedsDetach(status) == status # "detaching"

UnpublishGetVolume ==
    /\ ctl.op = "unpublish" /\ ctl.pc = "fetch"
    /\ \E r \in GetVolumeOutcomes(VolId) :
          LET c == Seen(ctl, r) IN
          ctl' = IF r.kind = "notfound" THEN Done([ctl EXCEPT !.notFound = TRUE], "OK")
                 ELSE IF r.kind = "error" THEN Failed(ctl, r)
                 ELSE IF UnpublishNothingToDo(r.status, r.instance, ctl.node) THEN Done(c, "OK")
                 ELSE IF UnpublishNeedsDetach(r.status) THEN [c EXCEPT !.pc = "detach"]
                 ELSE [c EXCEPT !.pc = "settle"]
    /\ UNCHANGED <<volumes, notAttach>>

\* d.CivoClient.DetachVolume: refused, or accepted by the provider
UnpublishDetach ==
    /\ ctl.op = "unpublish" /\ ctl.pc = "detach"
    /\ UNCHANGED notAttach
    /\ \/ /\ ctl' = Done([ctl EXCEPT !.detachCalls = @ + 1], "Error")
          /\ UNCHANGED <<volumes, notAttach>>
       \/ /\ VolId \in DOMAIN volumes
          /\ \/ volumes' = [volumes EXCEPT ![VolId].status = "detaching"]
             \/ volumes' = [volumes EXCEPT ![VolId].status = "available", ![VolId].instance = ""]
          /\ ctl' = [ctl EXCEPT !.detachCalls = @ + 1, !.pc = "settle"]

\* a verdict that takes a detach in progress for a finished one
MutUnpublishVerdict(status) ==
    IF status \in {"available", "detaching"} THEN "OK" ELSE "Unavailable"

UnpublishVerdict(status) == IF status = "available" THEN "OK" ELSE "Unavailable"

UnpublishRefetch ==
    /\ ctl.op = "unpublish" /\ ctl.pc = "settle"
    /\ \E r \in GetVolumeOutcomes(VolId) :
          ctl' = IF r.kind # "ok" THEN Failed(ctl, r)
                 ELSE Done(Seen(ctl, r), UnpublishVerdict(r.status))
    /\ UNCHANGED <<volumes, notAttach>>

ControllerUnpublishVolume ==
    UnpublishBegin \/ UnpublishGetVolume \/ UnpublishDetach \/ UnpublishRefetch

\* the RPC has answered; the next request may arrive
Return ==
    /\ ctl.pc = "done"
    /\ ctl' = NoCall
    /\ UNCHANGED <<volumes, notAttach>>

----------------------------------------------------------------------------
(* Attach/detach specification: one request at a time against a provider   *)
(* whose volume starts in any state and may change between any two steps.  *)

InitAttach ==
    /\ volumes \in {<<>>} \cup {(VolId :> VolRec(s, i)) : s \in Statuses, i \in InstanceIds}
    /\ ctl = NoCall
    /\ IdleHanging /\ IdlePreStop /\ IdleNode /\ IdleCreate /\ IdleLifecycle /\ IdleMain

NextAttach ==
    \/ ControllerPublishVolume
    \/ ControllerUnpublishVolume
    \/ Return
    \/ ProviderTransition

SpecAttach == InitAttach /\ [][NextAttach]_vars

----------------------------------------------------------------------------
(* Claims on attach/detach, checked under SpecAttach *)

C7_UnpublishOtherNodeIsNoop ==
    [][(/\ ctl.op = "unpublish" /\ ctl.pc = "fetch"
        /\ ctl'.reads = 1
        /\ ctl'.firstInstance # ctl.node)
       => (/\ ctl'.pc = "done" /\ ctl'.result = "OK"
           /\ ctl'.detachCalls = 0
           /\ volumes' = volumes)]_vars

\* an unpublish answered with success while the volume is attached elsewhere
C7_Witness ==
    /\ ctl.op = "unpublish" /\ ctl.result = "OK" /\ ctl.reads = 1
    /\ ctl.firstStatus = "attached" /\ ctl.firstInstance = "n2" /\ ctl.node = "n1"
    /\ VolId \in DOMAIN volumes /\ volumes[VolId].status = "attached"
    /\ volumes[VolId].instance = "n2"

\* C8: for a member node, ControllerPublishVolume issues an attach call
\* exactly when the fetched status is available, whatever the instance_id;
\* for a volume attached or attaching to the requested node it issues none.
C8_AttachIffAvailable ==
    (ctl.op = "publish" /\ ctl.reads = 1)
        => ((ctl.pc = "attach" \/ ctl.attachCalls > 0) <=> ctl.firstStatus = "available")

\* C9: when the fetched volume is not available and its instance_id is not
\* the requested node, ControllerPublishVolume returns Unavailable, has
\* issued neither attach nor detach and leaves the provider's volume as it was.
C9_PublishForeignVolumeRejected ==
    [][(/\ ctl.op = "publish" /\ ctl.pc = "fetch"
        /\ ctl'.reads = 1
        /\ ctl'.firstStatus # "available"
        /\ ctl'.firstInstance # ctl.node)
       => (/\ ctl'.pc = "done" /\ ctl'.result = "Unavailable"
           /\ ctl'.attachCalls = 0 /\ ctl'.detachCalls = 0
           /\ volumes' = volumes)]_vars

\* a publish for n1 refused because the volume is attached to n2
C9_Witness ==
    /\ ctl.op = "publish" /\ ctl.result = "Unavailable" /\ ctl.reads = 1
    /\ ctl.node = "n1" /\ ctl.firstStatus = "attached" /\ ctl.firstInstance = "n2"

\* the detach path of ControllerUnpublishVolume: the fetched volume is not
\* available and is the requested node's
OnDetachPath ==
    /\ ctl.op = "unpublish" /\ ctl.reads >= 1
    /\ ctl.firstStatus # "available" /\ ctl.firstInstance = ctl.node

\* C10: on the detach path ControllerUnpublishVolume issues exactly one
\* detach call unless the fetched status is detaching (then none), reads the
\* volume again after the settle interval, and answers success if and only
\* if that second read shows available, Unavailable otherwise.  A provider
\* call that fails ends the request with the provider's error.
C10_UnpublishDetachPath ==
    OnDetachPath =>
        /\ ctl.pc = "detach" => (ctl.detachCalls = 0 /\ ctl.firstStatus # "detaching")
        /\ ctl.pc \in {"settle", "done"} =>
              ctl.detachCalls = (IF ctl.firstStatus = "detaching" THEN 0 ELSE 1)
        /\ (ctl.pc = "done" /\ ctl.reads = 2) =>
              ctl.result = (IF ctl.seenStatus = "available" THEN "OK" ELSE "Unavailable")
        /\ (ctl.pc = "done" /\ ctl.reads = 1) => ctl.result = "Error"
        /\ ctl.pc \in {"detach", "settle", "done"}

\* a detach was issued and the second read showed the volume available
C10_Witness ==
    OnDetachPath /\ ctl.pc = "done" /\ ctl.reads = 2 /\ ctl.detachCalls = 1
                 /\ ctl.firstStatus = "attached" /\ ctl.result = "OK"

----------------------------------------------------------------------------
(* FixHangingVolume: the periodic sweep of provider volumes without a PV *)

\* the most provider volumes a sweep is checked against
MaxVols == 2

AllVolIds == <<"v1", "v2", "v3", "v4">>

SweepVolIds == {AllVolIds[i] : i \in 1..MaxVols}

VolNames == {"pvc-a", "pvc-b"}

\* cluster_id tags a provider volume may carry; "" is an untagged volume
ClusterTags == {"", "c1", "c2"}

\* values of CIVO_CLUSTER_ID the driver may be started with
DriverClusterIDs == {"", "c1"}

HangRec(name, cluster) ==
    [name |-> name, size |-> 1, status |-> "available", instance |-> "", cluster |-> cluster]

\* the ids of a volumeList, in the order ListVolumes returns them
ListOrder(listed) ==
    SelectSeq(SubSeq(AllVolIds, 1, MaxVols), LAMBDA id : id \in DOMAIN listed)

\* the test on one listed volume: no PV carries its name and it carries the
\* driver's cluster id
IsHanging(vol, pvNames, cid) ==
    vol.name \notin pvNames /\ vol.cluster = cid

\* volumeIDsToDelete
VolumeIDsToDelete(listed, pvNames, cid) ==
    IF Cardinality(pvNames) # Cardinality(DOMAIN listed)
    THEN SelectSeq(ListOrder(listed), LAMBDA id : IsHanging(listed[id], pvNames, cid))
    ELSE <<>>

SweepDone(res) == [sweep EXCEPT !.pc = "done", !.result = res]

\* d.CivoClient.ListVolumes
SweepListVolumes ==
    /\ sweep.pc = "idle"
    /\ \/ sweep' = [NoSweep EXCEPT !.pc = "done", !.result = "Error"]
       \/ sweep' = [NoSweep EXCEPT !.pc = "listpvs", !.listed = volumes]
    /\ UNCHANGED <<volumes, pvs, clusterID, notHanging>>

\* d.KubeClient.CoreV1().PersistentVolumes().List, then the selection
SweepListPVs ==
    /\ sweep.pc = "listpvs"
    /\ \/ sweep' = SweepDone("Error")
       \/ sweep' = [sweep EXCEPT !.pc = "delete",
                                 !.toDelete = VolumeIDsToDelete(sweep.listed, pvs, clusterID)]
    /\ UNCHANGED <<volumes, pvs, clusterID, notHanging>>

\* one round of the deletion loop: d.CivoClient.DeleteVolume fails or deletes
SweepDelete ==
    /\ sweep.pc = "delete"
    /\ UNCHANGED <<pvs, clusterID, notHanging>>
    /\ IF sweep.toDelete = <<>>
       THEN sweep' = SweepDone("nil") /\ UNCHANGED volumes
       ELSE LET id == Head(sweep.toDelete)
                s == [sweep EXCEPT !.issued = @ \cup {id}, !.toDelete = Tail(@)] IN
            \/ /\ sweep' = [s EXCEPT !.pc = "done", !.result = "Error"]
               /\ UNCHANGED volumes
            \/ /\ id \in DOMAIN volumes
               /\ volumes' = [v \in DOMAIN volumes \ {id} |-> volumes[v]]
               /\ sweep' = s

FixHangingVolume == SweepListVolumes \/ SweepListPVs \/ SweepDelete

\* the sweep has returned; the ticker starts the next one
SweepReturn ==
    /\ sweep.pc = "done"
    /\ sweep' = NoSweep
    /\ UNCHANGED <<volumes, pvs, clusterID, notHanging>>

\* the orchestrator creates or removes a PersistentVolume
OrchestratorChangesPV ==
    /\ \E n \in VolNames : pvs' = IF n \in pvs THEN pvs \ {n} ELSE pvs \cup {n}
    /\ UNCHANGED <<volumes, clusterID, sweep, notHanging>>

InitHanging ==
    /\ \E ids \in SUBSET SweepVolIds :
          volumes \in [ids -> {HangRec(n, c) : n \in VolNames, c \in ClusterTags}]
    /\ pvs \in SUBSET VolNames
    /\ clusterID \in DriverClusterIDs
    /\ sweep = NoSweep
    /\ ctl = NoCall /\ IdlePreStop /\ IdleNode /\ IdleCreate /\ IdleLifecycle /\ IdleMain

NextHanging ==
    \/ FixHangingVolume
    \/ SweepReturn
    \/ OrchestratorChangesPV

SpecHanging == InitHanging /\ [][NextHanging]_vars

\* C6: FixHangingVolume never issues delete_volume for a volume it does not
\* own: every volume it asks the provider to delete was listed with a
\* cluster_id that is non-empty and equal to the driver's cluster id.
C6_SweepDeletesOnlyOwned ==
    \A id \in sweep.issued :
        /\ sweep.listed[id].cluster = clusterID
        /\ sweep.listed[id].cluster # ""

----------------------------------------------------------------------------
(* The pre-stop hook: waitForVolumeAttachmentsCleanup and its informer *)

\* the most VolumeAttachments that exist when the hook starts
MaxVAs == 2

\* the most VolumeAttachment updates the orchestrator makes during the wait
MaxUpdates == 2

AllVANames == <<"va1", "va2", "va3">>

VANames == {AllVANames[i] : i \in 1..MaxVAs}

\* h.nodeName
ThisNode == "node-01"

NodeNames == {ThisNode, "node-02"}

\* some VolumeAttachment of the volumeList references this node
ExistsOnThisNode(listing) == \E n \in DOMAIN listing : listing[n] = ThisNode

\* checkVolumeAttachmentsExist: what a List call may give
CheckVolumeAttachmentsExist ==
    {"error", IF ExistsOnThisNode(attachments) THEN "exists" ELSE "none"}

\* the function returns; the deferred stopInformerFn closes the channel
HookReturn(res, via) ==
    /\ hook' = [hook EXCEPT !.pc = "returned", !.result = res, !.via = via,
                            !.sawNone = @ \/ via = "list"]
    /\ informerCh' = "closed"

\* the keys of the taints a node may carry
TaintKeys == {"node.kubernetes.io/unschedulable", "node.kubernetes.io/not-ready"}

\* the taints of a drain: v1.TaintNodeUnschedulable
drainTaints == {"node.kubernetes.io/unschedulable"}

MutisNodeDrained(taints) == taints # {}

\* whether one of the node's taints is a drain taint
isNodeDrained(taints) == \E traint \in taints : traint \in drainTaints

\* h.client.CoreV1().Nodes().Get: the node with its taints, a not-found
\* error, or another error
NodeGetOutcomes ==
    {[kind |-> "node", taints |-> t] : t \in SUBSET TaintKeys}
    \cup {[kind |-> k, taints |-> {}] : k \in {"notfound", "error"}}

\* what PreStop does with the node it asked for: "wait", "return nil",
\* "return error" or "panic".  With a not-found error the node is what the
\* client returned beside the error: an empty Node, which carries no taint,
\* or nil, which isNodeDrained dereferences
PreStopOnNode(got) ==
    CASE got.kind = "node" -> IF isNodeDrained(got.taints) THEN {"wait"} ELSE {"return nil"}
      [] got.kind = "notfound" -> {"return nil", "panic"}
      [] got.kind = "error" -> {"return error"}

\* PreStop up to the call of waitForVolumeAttachmentsCleanup
PreStopBegin ==
    /\ hook.pc = "start"
    /\ \E got \in NodeGetOutcomes : \E what \in PreStopOnNode(got) :
          LET h == [hook EXCEPT !.node = got.kind, !.taints = got.taints] IN
          hook' = CASE what = "wait" -> [h EXCEPT !.pc = "subscribe"]
                    [] what = "return nil" -> [h EXCEPT !.pc = "returned", !.result = "nil", !.via = "node"]
                    [] what = "return error" -> [h EXCEPT !.pc = "returned", !.result = "Error", !.via = "node"]
                    [] what = "panic" -> [h EXCEPT !.pc = "returned", !.result = "panic", !.via = "node"]
    /\ UNCHANGED <<attachments, informer, events, informerCh, ctxDone, updates, notPreStop>>

\* AddEventHandler, then go informer.Run(informerCh)
WaitSubscribe ==
    /\ hook.pc = "subscribe"
    /\ \/ HookReturn("Error", "subscribe") /\ UNCHANGED informer
       \/ /\ hook' = [hook EXCEPT !.pc = "check"]
          /\ informer' = [informer EXCEPT !.state = "starting"]
          /\ UNCHANGED informerCh
    /\ UNCHANGED <<attachments, events, ctxDone, updates, notPreStop>>

\* the first checkVolumeAttachmentsExist and the three ways on from it
WaitInitialCheck ==
    /\ hook.pc = "check"
    /\ \E r \in CheckVolumeAttachmentsExist :
          CASE r = "none" -> HookReturn("nil", "list")
            [] r = "error" -> HookReturn("Error", "check")
            [] r = "exists" -> hook' = [hook EXCEPT !.pc = "waiting"] /\ UNCHANGED informerCh
    /\ UNCHANGED <<attachments, informer, events, ctxDone, updates, notPreStop>>

\* select on informerCh and ctx.Done()
WaitSelect ==
    /\ hook.pc = "waiting"
    /\ \/ informerCh = "closed" /\ HookReturn("nil", "event")
       \/ ctxDone /\ HookReturn("nil", "ctx")
    /\ UNCHANGED <<attachments, informer, events, ctxDone, updates, notPreStop>>

waitForVolumeAttachmentsCleanup == WaitSubscribe \/ WaitInitialCheck \/ WaitSelect

\* informer.Run: the informer's own list, after which it watches
InformerList ==
    /\ informer.state = "starting" /\ informerCh = "open"
    /\ informer' = [state |-> "watching", store |-> attachments]
    /\ UNCHANGED <<attachments, hook, events, informerCh, ctxDone, updates, notPreStop>>

\* informer.Run returns once its stop channel is closed
InformerStop ==
    /\ informer.state \in {"starting", "watching"} /\ informerCh = "closed"
    /\ informer' = [informer EXCEPT !.state = "stopped"]
    /\ UNCHANGED <<attachments, hook, events, informerCh, ctxDone, updates, notPreStop>>

\* volumeAttachmentEventHandler: "nil" or "error", given the event's object and
\* what the follow-up list gave
VolumeAttachmentEventHandler(ev, listing) ==
    IF ~ev.isVA THEN "error"
    ELSE IF ev.node = ThisNode /\ listing # "none" THEN "error"
    ELSE "nil"

\* DeleteFunc / UpdateFunc on the next event
InformerDeliver ==
    /\ informer.state = "watching" /\ informerCh = "open" /\ events # <<>>
    /\ LET ev == Head(events) IN
       \E r \in CheckVolumeAttachmentsExist :
          LET listed == ev.isVA /\ ev.node = ThisNode IN
          /\ informerCh' = IF VolumeAttachmentEventHandler(ev, r) = "nil" THEN "closed" ELSE "open"
          /\ hook' = [hook EXCEPT !.sawNone = @ \/ (listed /\ r = "none")]
    /\ events' = Tail(events)
    /\ UNCHANGED <<attachments, informer, ctxDone, updates, notPreStop>>

\* the orchestrator deletes a VolumeAttachment; a watching informer that knows
\* it gets a delete event, whose object may be a tombstone
DeleteVA ==
    /\ \E n \in DOMAIN attachments :
          /\ attachments' = [m \in DOMAIN attachments \ {n} |-> attachments[m]]
          /\ IF informer.state = "watching" /\ n \in DOMAIN informer.store
             THEN /\ \E isVA \in BOOLEAN :
                        events' = Append(events, [type |-> "delete", node |-> attachments[n], isVA |-> isVA])
                  /\ informer' = [informer EXCEPT !.store = [m \in DOMAIN @ \ {n} |-> @[m]]]
             ELSE UNCHANGED <<events, informer>>
    /\ UNCHANGED <<hook, informerCh, ctxDone, updates, notPreStop>>

\* the orchestrator updates a VolumeAttachment (its status, say)
UpdateVA ==
    /\ updates < MaxUpdates
    /\ updates' = updates + 1
    /\ \E n \in DOMAIN attachments :
          events' = IF informer.state = "watching" /\ n \in DOMAIN informer.store
                    THEN Append(events, [type |-> "update", node |-> attachments[n], isVA |-> TRUE])
                    ELSE events
    /\ UNCHANGED <<attachments, hook, informer, informerCh, ctxDone, notPreStop>>

\* the hook's context is cancelled
CtxCancel ==
    /\ ~ctxDone
    /\ ctxDone' = TRUE
    /\ UNCHANGED <<attachments, hook, informer, events, informerCh, updates, notPreStop>>

InitPreStop ==
    /\ \E names \in SUBSET VANames : attachments \in [names -> NodeNames]
    /\ hook = NoHook
    /\ informer = [state |-> "created", store |-> <<>>]
    /\ events = <<>> /\ informerCh = "open" /\ ctxDone = FALSE /\ updates = 0
    /\ volumes = <<>> /\ ctl = NoCall /\ IdleHanging /\ IdleNode /\ IdleCreate /\ IdleLifecycle /\ IdleMain

NextPreStop ==
    \/ PreStopBegin
    \/ waitForVolumeAttachmentsCleanup
    \/ InformerList
    \/ InformerStop
    \/ InformerDeliver
    \/ DeleteVA
    \/ UpdateVA
    \/ CtxCancel

SpecPreStop == InitPreStop /\ [][NextPreStop]_vars

\* the hook's goroutine and the informer's goroutines keep running; the
\* orchestrator and the cancellation are under no obligation
FairPreStop ==
    /\ SpecPreStop
    /\ WF_vars(PreStopBegin)
    /\ WF_vars(waitForVolumeAttachmentsCleanup)
    /\ WF_vars(InformerList)
    /\ WF_vars(InformerDeliver)

\* C4: the wait returns nil, other than through the cancelled context, only
\* after a list of VolumeAttachments showed none on this node; an event for
\* any attachment of any node does not end it otherwise.
C4_WaitEndsOnlyAfterEmptyList ==
    (hook.pc = "returned" /\ hook.result = "nil" /\ hook.via \notin {"ctx", "node"}) => hook.sawNone

\* C5: no deletion is missed: once no VolumeAttachment references this node,
\* also when the last deletion raced the first list or the informer's start,
\* the wait returns without the context being cancelled.
C5_DeletionNeverMissed ==
    (~ExistsOnThisNode(attachments)) ~> (hook.pc = "returned" \/ ctxDone)

----------------------------------------------------------------------------
(* The node service: NodeStageVolume over the host's disk primitives *)

\* the most node RPCs started in one run of the model
MaxStageCalls == 3

\* req.StagingTargetPath
StagingPath == "/staging"

\* RealDiskHotPlugger.PathForVolume: the device's path, or "" without a device
PathForVolume == IF deviceAttached THEN "/dev/disk/by-id/" \o VolId ELSE ""

\* the path the device has whenever it is attached
DevicePath == "/dev/disk/by-id/" \o VolId

\* the answers blkid can give through IsFormatted: "true" (exit 0), "false"
\* (exit 2: no filesystem, or no such device) or "error"
IsFormatted(path) ==
    IF path = "" THEN {"error"}
    ELSE {IF deviceAttached /\ formatted THEN "true" ELSE "false", "error"}

\* the answers findmnt -M can give through IsMounted
IsMounted(path) ==
    IF path = "" THEN {"error"}
    ELSE {IF path \in DOMAIN mounts /\ mounts[path] > 0 THEN "true" ELSE "false", "error"}

StageAt(w, pc) == stage' = [stage EXCEPT ![w].pc = pc]

StageReturn(w, res) == stage' = [stage EXCEPT ![w].pc = "done", ![w].result = res]

\* argument checks, then PathForVolume
StageBegin(w) ==
    /\ stage[w].pc = "idle" /\ stageCalls < MaxStageCalls
    /\ stageCalls' = stageCalls + 1
    /\ \E argsOk \in BOOLEAN :
          LET s == [stage EXCEPT ![w].op = "stage", ![w].again = staged,
                                 ![w].attached = deviceAttached] IN
          stage' = IF ~argsOk THEN [s EXCEPT ![w].pc = "done", ![w].result = "InvalidArgument"]
                   ELSE IF PathForVolume = "" THEN [s EXCEPT ![w].pc = "done", ![w].result = "NotFound"]
                   ELSE [s EXCEPT ![w].pc = "isformatted"]
    /\ UNCHANGED <<deviceAttached, formatted, mounts, formatCalls, staged, notNode>>

\* a probe that lets every answer through
MutProbeFailed(r) == FALSE

\* err != nil after IsFormatted: the RPC returns the error
ProbeFailed(r) == r = "error"

\* IsFormatted on the path found at the start; the RPC formats when the
\* answer is false without an error
StageIsFormatted(w) ==
    /\ stage[w].op = "stage" /\ stage[w].pc = "isformatted"
    /\ \E r \in IsFormatted(DevicePath) :
          LET s == [stage EXCEPT ![w].blkid = r] IN
          stage' = IF ProbeFailed(r) THEN [s EXCEPT ![w].pc = "done", ![w].result = "Error"]
                   ELSE IF r = "true" THEN [s EXCEPT ![w].pc = "ismounted"]
                   ELSE [s EXCEPT ![w].pc = "format"]
    /\ UNCHANGED <<deviceAttached, formatted, mounts, formatCalls, stageCalls, staged, notNode>>

\* Format(PathForVolume, "ext4"): mkfs fails or makes a new filesystem; the
\* error is dropped
StageFormat(w) ==
    /\ stage[w].op = "stage" /\ stage[w].pc = "format"
    /\ formatCalls' = IF PathForVolume # "" THEN formatCalls + 1 ELSE formatCalls
    /\ \/ UNCHANGED formatted
       \/ PathForVolume # "" /\ formatted' = TRUE
    /\ stage' = [stage EXCEPT ![w].pc = "ismounted", ![w].formatInvoked = TRUE]
    /\ UNCHANGED <<deviceAttached, mounts, stageCalls, staged, notNode>>

\* IsMounted(PathForVolume): the device path is asked for, not the staging path
StageIsMounted(w) ==
    /\ stage[w].op = "stage" /\ stage[w].pc = "ismounted"
    /\ \E r \in IsMounted(PathForVolume) :
          CASE r = "error" -> StageReturn(w, "Error")
            [] r = "true" -> StageReturn(w, "OK")
            [] r = "false" -> StageAt(w, "mount")
    /\ UNCHANGED <<deviceAttached, formatted, mounts, formatCalls, stageCalls, staged, notNode>>

\* mount -t ext4 device mountpoint: fails without a device or a filesystem, and
\* when the device is mounted there already
MountSucceeds(mountpoint) ==
    /\ PathForVolume # "" /\ formatted
    /\ ~(mountpoint \in DOMAIN mounts /\ mounts[mountpoint] > 0)

\* Mount(PathForVolume, StagingTargetPath, "ext4", flags): the error is dropped
StageMount(w) ==
    /\ stage[w].op = "stage" /\ stage[w].pc = "mount"
    /\ \/ UNCHANGED mounts
       \/ MountSucceeds(StagingPath) /\ mounts' = (StagingPath :> 1) @@ mounts
    /\ stage' = [stage EXCEPT ![w].pc = "done", ![w].result = "OK", ![w].mountInvoked = TRUE]
    /\ UNCHANGED <<deviceAttached, formatted, formatCalls, stageCalls, staged, notNode>>

NodeStageVolume(w) ==
    \/ StageBegin(w)
    \/ StageIsFormatted(w)
    \/ StageFormat(w)
    \/ StageIsMounted(w)
    \/ StageMount(w)

\* umount of a path: a mountpoint loses its mount, the mounts of a device
\* are taken off; the command may fail
Unmount(path) ==
    {mounts}
    \cup (IF path \in DOMAIN mounts /\ mounts[path] > 0
          THEN {[m \in DOMAIN mounts |-> IF m = path THEN mounts[m] - 1 ELSE mounts[m]]}
          ELSE {})

\* argument checks, then PathForVolume: without a device there is nothing to do
UnstageBegin(w) ==
    /\ stage[w].pc = "idle" /\ stageCalls < MaxStageCalls
    /\ stageCalls' = stageCalls + 1
    /\ \E argsOk \in BOOLEAN :
          LET s == [stage EXCEPT ![w].op = "unstage", ![w].again = staged,
                                 ![w].attached = deviceAttached] IN
          /\ stage' = IF ~argsOk THEN [s EXCEPT ![w].pc = "done", ![w].result = "InvalidArgument"]
                      ELSE IF PathForVolume = "" /\ ~testMode
                           THEN [s EXCEPT ![w].pc = "done", ![w].result = "OK"]
                      ELSE [s EXCEPT ![w].pc = "ismounted"]
          /\ staged' = IF argsOk THEN FALSE ELSE staged
    /\ UNCHANGED <<deviceAttached, formatted, mounts, formatCalls, notNode>>

\* IsMounted(path) with the path of the device, and Unmount(path) when it
\* says mounted; the error of Unmount is dropped
UnstageIsMounted(w) ==
    /\ stage[w].op = "unstage" /\ stage[w].pc = "ismounted"
    /\ \E r \in IsMounted(PathForVolume) :
          CASE r = "error" -> StageReturn(w, "Error") /\ UNCHANGED mounts
            [] r = "true" -> StageReturn(w, "OK") /\ mounts' \in Unmount(PathForVolume)
            [] r = "false" -> StageReturn(w, "OK") /\ UNCHANGED mounts
    /\ UNCHANGED <<deviceAttached, formatted, formatCalls, stageCalls, staged, notNode>>

NodeUnstageVolume(w) ==
    \/ UnstageBegin(w)
    \/ UnstageIsMounted(w)

\* the number of mounts at a mountpoint
MountsAt(mountpoint) == IF mountpoint \in DOMAIN mounts THEN mounts[mountpoint] ELSE 0

\* req.TargetPath
TargetPath == "/target"

\* the host's paths after os.MkdirAll(path): a path of the host is in the
\* domain of mounts, with the number of mounts on it
WithPath(path) == IF path \in DOMAIN mounts THEN mounts ELSE (path :> 0) @@ mounts

\* the host's paths after the removal of path
WithoutPath(path) == [m \in DOMAIN mounts \ {path} |-> mounts[m]]

\* NodePublishVolume: argument checks, MkdirAll(TargetPath), IsMounted and,
\* when it says not mounted, the bind mount, whose error is dropped
NodePublishVolume(w) ==
    /\ stage[w].pc = "idle" /\ stageCalls < MaxStageCalls
    /\ stageCalls' = stageCalls + 1
    /\ \E argsOk, mkdirOk \in BOOLEAN, r \in IsMounted(TargetPath) :
          LET s == [stage EXCEPT ![w].op = "publish", ![w].pc = "done"] IN
          IF ~argsOk
          THEN stage' = [s EXCEPT ![w].result = "InvalidArgument"] /\ UNCHANGED mounts
          ELSE IF ~mkdirOk
          THEN stage' = [s EXCEPT ![w].result = "Error"] /\ UNCHANGED mounts
          ELSE IF r = "error"
          THEN stage' = [s EXCEPT ![w].result = "Error"] /\ mounts' = WithPath(TargetPath)
          ELSE IF r = "true"
          THEN stage' = [s EXCEPT ![w].result = "OK"] /\ UNCHANGED mounts
          ELSE /\ stage' = [s EXCEPT ![w].result = "OK", ![w].mountInvoked = TRUE]
               /\ \/ mounts' = WithPath(TargetPath)
                  \/ StagingPath \in DOMAIN mounts /\ mounts' = (TargetPath :> 1) @@ mounts
    /\ UNCHANGED <<deviceAttached, formatted, formatCalls, staged, notNode>>

\* every answer of IsMounted leads to the unmount
MutUnpublishNext(r) == "unmount"

\* NodeUnpublishVolume after IsMounted(targetPath): the error of findmnt is
\* neither a not-exist error nor a corrupted mount and is returned; not
\* mounted leads to RemoveAll, mounted to Unmount
NodeUnpublishNext(r) ==
    CASE r = "error" -> "done"
      [] r = "false" -> "removeall"
      [] r = "true" -> "unmount"

\* argument checks, then IsMounted(targetPath)
NodeUnpublishBegin(w) ==
    /\ stage[w].pc = "idle" /\ stageCalls < MaxStageCalls
    /\ stageCalls' = stageCalls + 1
    /\ \E argsOk \in BOOLEAN, r \in IsMounted(TargetPath) :
          LET s == [stage EXCEPT ![w].op = "unpublish"] IN
          stage' = IF ~argsOk THEN [s EXCEPT ![w].pc = "done", ![w].result = "InvalidArgument"]
                   ELSE LET t == [s EXCEPT ![w].targetExisted = (TargetPath \in DOMAIN mounts)] IN
                        IF NodeUnpublishNext(r) = "done"
                        THEN [t EXCEPT ![w].pc = "done", ![w].result = "Error"]
                        ELSE [t EXCEPT ![w].pc = NodeUnpublishNext(r)]
    /\ UNCHANGED <<deviceAttached, formatted, mounts, formatCalls, staged, notNode>>

\* os.RemoveAll(targetPath): nothing to do without the path, Internal when
\* the removal fails (a mount is on the path, or another failure)
NodeUnpublishRemoveAll(w) ==
    /\ stage[w].op = "unpublish" /\ stage[w].pc = "removeall"
    /\ LET s == [stage EXCEPT ![w].pc = "done", ![w].atRemove = (TargetPath \in DOMAIN mounts)] IN
       IF MountsAt(TargetPath) > 0
       THEN stage' = [s EXCEPT ![w].result = "Internal"] /\ UNCHANGED mounts
       ELSE \/ stage' = [s EXCEPT ![w].result = "OK"] /\ mounts' = WithoutPath(TargetPath)
            \/ /\ TargetPath \in DOMAIN mounts
               /\ stage' = [s EXCEPT ![w].result = "Internal"] /\ UNCHANGED mounts
    /\ UNCHANGED <<deviceAttached, formatted, formatCalls, stageCalls, staged, notNode>>

\* Unmount(targetPath), whose error is returned, then os.Remove(targetPath),
\* which fails with Internal unless the path is gone already
NodeUnpublishUnmount(w) ==
    /\ stage[w].op = "unpublish" /\ stage[w].pc = "unmount"
    /\ LET s == [stage EXCEPT ![w].pc = "done", ![w].unmountInvoked = TRUE] IN
       \/ stage' = [s EXCEPT ![w].result = "Error"] /\ UNCHANGED mounts
       \/ /\ MountsAt(TargetPath) > 0
          /\ \/ stage' = [s EXCEPT ![w].result = "OK"] /\ mounts' = WithoutPath(TargetPath)
             \/ /\ stage' = [s EXCEPT ![w].result = "Internal"]
                /\ mounts' = [mounts EXCEPT ![TargetPath] = 0]
    /\ UNCHANGED <<deviceAttached, formatted, formatCalls, stageCalls, staged, notNode>>

NodeUnpublishVolume(w) ==
    \/ NodeUnpublishBegin(w)
    \/ NodeUnpublishRemoveAll(w)
    \/ NodeUnpublishUnmount(w)

\* the RPC has answered; the worker takes the next request
NodeReturn(w) ==
    /\ stage[w].pc = "done"
    /\ stage' = [stage EXCEPT ![w] = NoStage]
    /\ staged' = (staged \/ (stage[w].op = "stage" /\ stage[w].result = "OK"))
    /\ UNCHANGED <<deviceAttached, formatted, mounts, formatCalls, stageCalls, notNode>>

\* the provider attaches the volume's device to the host or takes it away;
\* the orchestrator stages after the attach and detaches after the unstage,
\* so this happens between node RPCs
Hotplug ==
    /\ \A w \in Workers : stage[w].pc = "idle"
    /\ deviceAttached' = ~deviceAttached
    /\ UNCHANGED <<formatted, mounts, stage, formatCalls, stageCalls, staged, notNode>>

InitNode ==
    /\ deviceAttached \in BOOLEAN
    /\ formatted \in BOOLEAN
    /\ mounts = <<>>
    /\ stage = [w \in Workers |-> NoStage]
    /\ formatCalls = 0 /\ stageCalls = 0 /\ staged = FALSE
    /\ volumes = <<>> /\ ctl = NoCall /\ IdleHanging /\ IdlePreStop /\ IdleCreate /\ IdleLifecycle /\ IdleMain

NextNode ==
    \/ \E w \in Workers : NodeStageVolume(w)
    \/ \E w \in Workers : NodeUnstageVolume(w)
    \/ \E w \in Workers : NodePublishVolume(w)
    \/ \E w \in Workers : NodeUnpublishVolume(w)
    \/ \E w \in Workers : NodeReturn(w)
    \/ Hotplug

SpecNode == InitNode /\ [][NextNode]_vars

\* C3: across any interleaving of NodeStageVolume calls for a volume, also
\* two running at once, no call invokes format on a device that already
\* carries a filesystem.
C3_NoFormatOnceFormatted ==
    [][formatted => formatCalls' = formatCalls]_vars


----------------------------------------------------------------------------
(* CreateVolume *)

\* the most CreateVolume calls started in one run of the model
MaxCreateCalls == 3

BytesInGigabyte == 1024 * 1024 * 1024

DefaultVolumeSizeGB == 10

CivoVolumeAvailableRetries == 20

\* the account's limits in the model
DiskGigabytesLimit == 12
DiskVolumeCountLimit == 3

\* req.VolumeCapabilities: none, a mount volume for a single-node writer, an
\* access mode outside supportedAccessModes, a block volume
Capabilities == {"none", "mount_single_writer", "mount_multi_writer", "block_single_writer"}

\* req.CapacityRange: absent, or required and limit bytes
CapRanges ==
    {NilRange,
     [present |-> TRUE, required |-> 1, limit |-> 0],
     [present |-> TRUE, required |-> 0, limit |-> BytesInGigabyte + 1],
     [present |-> TRUE, required |-> BytesInGigabyte, limit |-> 1]}

\* req.VolumeContentSource: none, a snapshot with its id, a snapshot without
\* an id, a source that is not a snapshot
ContentSources == {"none", "snapshot", "snapshot_no_id", "volume"}

\* getVolSizeInBytes of a present range: required bytes, else limit bytes
getVolSizeInBytes(range) ==
    IF range.required = 0 THEN range.limit ELSE range.required

\* a size that drops the bytes beyond the last whole gigabyte
MutDesiredSize(range) ==
    IF ~range.present THEN DefaultVolumeSizeGB
    ELSE getVolSizeInBytes(range) \div BytesInGigabyte

\* desiredSize: the bytes in gigabytes, rounded up; an absent range asks
\* for DefaultVolumeSizeGB * BytesInGigabyte bytes, which is that many gigabytes
DesiredSize(range) ==
    IF ~range.present THEN DefaultVolumeSizeGB
    ELSE LET bytes == getVolSizeInBytes(range) IN
         (bytes \div BytesInGigabyte) + (IF bytes % BytesInGigabyte # 0 THEN 1 ELSE 0)

\* the ids of d.CivoClient.ListVolumes, in the order of the volumeList
ListVolumes == SelectSeq(AllVolIds, LAMBDA id : id \in DOMAIN volumes)

MutNameMatches(vol, name) == FALSE

\* v.Name == req.Name
NameMatches(vol, name) == vol.name = name

\* the first listed volume with the requested name, "" when there is none
FindByName(name) ==
    LET hits == SelectSeq(ListVolumes, LAMBDA id : NameMatches(volumes[id], name)) IN
    IF hits = <<>> THEN "" ELSE Head(hits)

\* the id the provider gives the next volume
NextVolumeId ==
    Head(SelectSeq(AllVolIds, LAMBDA id : id \notin DOMAIN volumes))

CreateDone(w, res) == [create EXCEPT ![w].pc = "done", ![w].result = res]

\* a check that lets every capability that is given through
MutCapabilitiesSupported(caps) == caps # "none"

\* the capabilities are given, their access mode is in supportedAccessModes
\* and their access type is not block
CapabilitiesSupported(caps) == caps = "mount_single_writer"

\* the checks on name and capabilities of one request, and the size asked for
CreateRequest(w, name, caps, range, source) ==
    /\ create[w].pc = "idle" /\ createStarted < MaxCreateCalls
    /\ createStarted' = createStarted + 1
    /\ LET c == [create EXCEPT ![w].name = name, ![w].range = range, ![w].source = source,
                               ![w].desired = DesiredSize(range),
                               ![w].caps = caps, ![w].before = DOMAIN volumes] IN
       create' = IF name = "" \/ ~CapabilitiesSupported(caps)
                 THEN [c EXCEPT ![w].pc = "done", ![w].result = "InvalidArgument"]
                 ELSE [c EXCEPT ![w].pc = "list"]
    /\ UNCHANGED <<volumes, quota, testMode, first, notCreate>>

\* a CreateVolume request comes in
CreateBegin(w) ==
    \E name \in CreateNames, caps \in Capabilities, range \in CapRanges, source \in ContentSources :
        CreateRequest(w, name, caps, range, source)

\* a comparison that takes any volume of the name as the one asked for
MutSizeDiffers(vol, desiredSize) == FALSE

\* v.SizeGigabytes != int(desiredSize)
SizeDiffers(vol, desiredSize) == vol.size # desiredSize

\* ListVolumes and the lookup by name; without a match, the content source
CreateListVolumes(w) ==
    /\ create[w].pc = "list"
    /\ \/ create' = [CreateDone(w, "Error") EXCEPT ![w].lists = create[w].lists + 1]
       \/ LET id == FindByName(create[w].name)
              c == [create EXCEPT ![w].lists = create[w].lists + 1] IN
          create' = IF id # ""
                    THEN IF SizeDiffers(volumes[id], create[w].desired)
                         THEN [c EXCEPT ![w].pc = "done", ![w].result = "AlreadyExists",
                                        ![w].id = id, ![w].existing = volumes[id].size]
                         ELSE [c EXCEPT ![w].pc = "wait", ![w].id = id, ![w].found = TRUE,
                                        ![w].existing = volumes[id].size,
                                        ![w].size = volumes[id].size]
                    ELSE IF create[w].source \in {"snapshot_no_id", "volume"}
                         THEN [c EXCEPT ![w].pc = "done", ![w].result = "InvalidArgument"]
                         ELSE [c EXCEPT ![w].pc = "quota"]
    /\ UNCHANGED <<volumes, quota, testMode, createStarted, first, notCreate>>

\* a space check that also refuses a volume that just fits
MutExceedsSpace(availableSize, desiredSize) == availableSize <= desiredSize

\* availableSize < desiredSize
ExceedsSpace(availableSize, desiredSize) == availableSize < desiredSize

\* GetQuota and the two quota checks; the space check reports the gigabytes
\* by which the request exceeds the quota
CreateGetQuota(w) ==
    /\ create[w].pc = "quota"
    /\ \/ create' = [CreateDone(w, "Error") EXCEPT ![w].quotaReads = create[w].quotaReads + 1]
       \/ LET availableSize == quota.DiskGigabytesLimit - quota.DiskGigabytesUsage
              c == [create EXCEPT ![w].quotaReads = create[w].quotaReads + 1,
                                  ![w].quotaSeen = quota] IN
          create' = IF ExceedsSpace(availableSize, create[w].desired)
                    THEN [c EXCEPT ![w].pc = "done", ![w].result = "OutOfRange",
                                   ![w].deficit = create[w].desired - availableSize]
                    ELSE IF quota.DiskVolumeCountUsage >= quota.DiskVolumeCountLimit
                    THEN [c EXCEPT ![w].pc = "done", ![w].result = "OutOfRange"]
                    ELSE [c EXCEPT ![w].pc = "new"]
    /\ UNCHANGED <<volumes, quota, testMode, createStarted, first, notCreate>>

\* NewVolume: the provider refuses, or makes the volume and counts it
CreateNewVolume(w) ==
    /\ create[w].pc = "new"
    /\ \/ /\ create' = [CreateDone(w, "Error") EXCEPT ![w].made = create[w].made + 1]
          /\ UNCHANGED <<volumes, quota>>
       \/ /\ \E i \in DOMAIN AllVolIds : AllVolIds[i] \notin DOMAIN volumes
          /\ volumes' = (NextVolumeId :>
                            [name |-> create[w].name, size |-> create[w].desired,
                             status |-> "creating", instance |-> "", cluster |-> clusterID])
                        @@ volumes
          /\ quota' = [quota EXCEPT
                          !.DiskGigabytesUsage = quota.DiskGigabytesUsage + create[w].desired,
                          !.DiskVolumeCountUsage = quota.DiskVolumeCountUsage + 1]
          /\ create' = [create EXCEPT ![w].pc = "get", ![w].id = NextVolumeId,
                                      ![w].made = create[w].made + 1,
                                      ![w].size = create[w].desired]
    /\ UNCHANGED <<testMode, createStarted, first, notCreate>>

\* GetVolume(result.ID)
CreateGetVolume(w) ==
    /\ create[w].pc = "get"
    /\ \E r \in GetVolumeOutcomes(create[w].id) :
          create' = IF r.kind = "ok" THEN [create EXCEPT ![w].pc = "wait"]
                    ELSE CreateDone(w, "Error")
    /\ UNCHANGED <<volumes, quota, testMode, createStarted, first, notCreate>>

\* a comparison that never finds the status reached
MutStatusReached(status, desiredStatus) == FALSE

\* v.Status == desiredStatus
StatusReached(status, desiredStatus) == status = desiredStatus

\* waitForVolumeStatus(v, "available", CivoVolumeAvailableRetries): in test
\* mode true at once; else one read per round, an error of the read ends the
\* wait, and after the last round the wait fails
waitForVolumeStatus(w) ==
    /\ create[w].pc = "wait"
    /\ IF testMode
       THEN create' = [CreateDone(w, "OK") EXCEPT ![w].capacityGB = create[w].size]
       ELSE IF create[w].tries < CivoVolumeAvailableRetries
       THEN \E r \in GetVolumeOutcomes(create[w].id) :
               LET c == [create EXCEPT ![w].reads = create[w].reads + 1] IN
               create' = IF r.kind # "ok"
                         THEN [c EXCEPT ![w].pc = "done", ![w].result = "Error",
                                        ![w].endedBy = "read_error"]
                         ELSE IF StatusReached(r.status, "available")
                         THEN [c EXCEPT ![w].pc = "done", ![w].result = "OK",
                                        ![w].capacityGB = create[w].size,
                                        ![w].seen = r.status, ![w].endedBy = "reached"]
                         ELSE [c EXCEPT ![w].tries = create[w].tries + 1, ![w].seen = r.status]
       ELSE create' = [create EXCEPT ![w].pc = "done", ![w].result = "Error",
                                     ![w].endedBy = "exhausted"]
    /\ UNCHANGED <<volumes, quota, testMode, createStarted, first, notCreate>>

CreateVolume(w) ==
    \/ CreateBegin(w)
    \/ CreateListVolumes(w)
    \/ CreateGetQuota(w)
    \/ CreateNewVolume(w)
    \/ CreateGetVolume(w)
    \/ waitForVolumeStatus(w)

\* the RPC has answered; the worker takes the next request
CreateReturn(w) ==
    /\ create[w].pc = "done"
    /\ first' = IF create[w].result = "OK" /\ ~first[create[w].name].set
                THEN [first EXCEPT ![create[w].name] =
                         [set |-> TRUE, range |-> create[w].range, id |-> create[w].id,
                          made |-> create[w].made, found |-> create[w].found]]
                ELSE first
    /\ create' = [create EXCEPT ![w] = NoCreate]
    /\ UNCHANGED <<volumes, quota, testMode, createStarted, notCreate>>

\* the caller cancels the context of a request in flight
CancelRequest(w) ==
    /\ create[w].pc \notin {"idle", "done"} /\ ~create[w].cancelled
    /\ create' = [create EXCEPT ![w].cancelled = TRUE]
    /\ UNCHANGED <<volumes, quota, testMode, createStarted, first, notCreate>>

\* the provider finishes making a volume
ProviderSettles ==
    /\ \E id \in DOMAIN volumes :
          /\ volumes[id].status = "creating"
          /\ volumes' = [volumes EXCEPT ![id].status = "available"]
    /\ UNCHANGED <<createVars, notCreate>>

InitCreate ==
    /\ volumes = <<>>
    /\ quota \in [DiskGigabytesLimit : {DiskGigabytesLimit}, DiskGigabytesUsage : {0, 2},
                  DiskVolumeCountLimit : {DiskVolumeCountLimit}, DiskVolumeCountUsage : {0, 2}]
    /\ testMode \in BOOLEAN
    /\ create = [w \in Workers |-> NoCreate]
    /\ createStarted = 0
    /\ first = [n \in CreateNames |-> NoFirst]
    /\ ctl = NoCall /\ IdleHanging /\ IdlePreStop /\ IdleNode /\ IdleLifecycle /\ IdleMain

\* one request after the other, as the orchestrator sends them for one name
NextCreate ==
    \/ CreateVolume(1)
    \/ CreateReturn(1)
    \/ CancelRequest(1)
    \/ ProviderSettles

SpecCreate == InitCreate /\ [][NextCreate]_vars

\* the volumes the provider holds under a name
VolumesNamed(name) == {id \in DOMAIN volumes : volumes[id].name = name}

\* a CreateVolume call has succeeded for a name and a capacity range for which
\* an earlier call succeeded
SecondCreateDone(w) ==
    /\ create[w].pc = "done" /\ create[w].result = "OK"
    /\ first[create[w].name].set
    /\ first[create[w].name].range = create[w].range

\* C2: a CreateVolume that succeeds after an earlier successful CreateVolume
\* with the same name and size returns the earlier call's volume id and makes
\* no create call of its own: the two calls together made one create call
\* (none where the first call found the volume already at the provider), and
\* the provider holds one volume with that name.
C2_SecondCreateReturnsSameVolume ==
    \A w \in Workers :
        SecondCreateDone(w) =>
            /\ create[w].id = first[create[w].name].id
            /\ create[w].made + first[create[w].name].made
                  = (IF first[create[w].name].found THEN 0 ELSE 1)
            /\ Cardinality(VolumesNamed(create[w].name)) = 1

\* the second of two successful calls has answered, and the first made the volume
C2_Witness ==
    \E w \in Workers :
        /\ SecondCreateDone(w)
        /\ first[create[w].name].made = 1
        /\ create[w].found


----------------------------------------------------------------------------
(* DeleteVolume *)

\* the most DeleteVolume or ControllerExpandVolume calls started in one run
MaxLifecycleCalls == 3

\* req.VolumeId of a DeleteVolume request: missing, or an id the provider may
\* or may not hold
DeleteRequestIds == {""} \cup {AllVolIds[i] : i \in 1..3}

\* d.CivoClient.DeleteVolume: the volume is deleted, the provider answers
\* DatabaseVolumeNotFoundError for an id it does not hold, or the call fails
\* otherwise
DeleteVolumeOutcomes(id) ==
    (IF id \in DOMAIN volumes THEN {"deleted"} ELSE {"DatabaseVolumeNotFoundError"})
    \cup {"error"}

\* the volumes without the one of this id
WithoutVolume(id) == [v \in DOMAIN volumes \ {id} |-> volumes[v]]

MutDeleteVerdict(answer) == IF answer = "deleted" THEN "OK" ELSE "Error"

\* the answer of DeleteVolume to what the provider said
DeleteVerdict(answer) ==
    IF answer \in {"deleted", "DatabaseVolumeNotFoundError"} THEN "OK" ELSE "Error"

\* the check of req.VolumeId
DeleteBegin ==
    /\ del.pc = "idle" /\ lifecycleStarted < MaxLifecycleCalls
    /\ lifecycleStarted' = lifecycleStarted + 1
    /\ \E id \in DeleteRequestIds :
          del' = IF id = ""
                 THEN [NoDelete EXCEPT !.pc = "done", !.result = "InvalidArgument"]
                 ELSE [NoDelete EXCEPT !.pc = "call", !.id = id]
    /\ UNCHANGED <<volumes, deleted, expand, resizeCalls, notLifecycle>>

\* the provider call and the answer made of its outcome
DeleteCall ==
    /\ del.pc = "call"
    /\ \E answer \in DeleteVolumeOutcomes(del.id) :
          /\ volumes' = IF answer = "deleted" THEN WithoutVolume(del.id) ELSE volumes
          /\ del' = [del EXCEPT !.pc = "done", !.existed = del.id \in DOMAIN volumes,
                                !.answer = answer, !.result = DeleteVerdict(answer)]
    /\ UNCHANGED <<deleted, expand, resizeCalls, lifecycleStarted, notLifecycle>>

DeleteVolume ==
    \/ DeleteBegin
    \/ DeleteCall

\* the RPC has answered
DeleteReturn ==
    /\ del.pc = "done"
    /\ deleted' = IF del.result = "OK" THEN deleted \cup {del.id} ELSE deleted
    /\ del' = NoDelete
    /\ UNCHANGED <<volumes, expand, resizeCalls, lifecycleStarted, notLifecycle>>

InitDelete ==
    /\ \E ids \in SUBSET {AllVolIds[i] : i \in 1..2} :
          volumes \in [ids -> {HangRec(n, "c1") : n \in VolNames}]
    /\ IdleLifecycle /\ IdleMain
    /\ ctl = NoCall /\ IdleHanging /\ IdlePreStop /\ IdleNode /\ IdleCreate

NextDelete ==
    \/ DeleteVolume
    \/ DeleteReturn

SpecDelete == InitDelete /\ [][NextDelete]_vars

\* C11: a DeleteVolume for an id the provider does not hold leaves the
\* provider's volumes as they are and returns success on the provider's
\* not-found answer, so a second DeleteVolume of a deleted id succeeds too;
\* only a provider call that fails otherwise is answered with its error.
C11_DeleteOfAbsentVolumeSucceeds ==
    [][(del.pc = "call" /\ del.id \notin DOMAIN volumes /\ del'.pc = "done") =>
          /\ volumes' = volumes
          /\ del'.result = (IF del'.answer = "error" THEN "Error" ELSE "OK")
          /\ del'.answer \in {"DatabaseVolumeNotFoundError", "error"}]_vars

\* a second DeleteVolume of an id deleted before has succeeded
C11_Witness ==
    /\ del.pc = "done" /\ del.result = "OK" /\ ~del.existed
    /\ del.id \in deleted



\* C12: a NodeStageVolume that runs after one has succeeded, with no
\* NodeUnstageVolume in between, invokes neither Format nor Mount, and when
\* it has succeeded one mount is at the staging path.
C12_SecondStageDoesNothing ==
    \A w \in Workers :
        (stage[w].op = "stage" /\ stage[w].again) =>
            /\ ~stage[w].formatInvoked /\ ~stage[w].mountInvoked
            /\ (stage[w].pc = "done" /\ stage[w].result = "OK") => MountsAt(StagingPath) = 1

\* C13: when NodeStageVolume has succeeded a mount is at the staging path, and
\* when a NodeUnstageVolume called with the device attached has succeeded
\* after it, no mount is at the staging path.
C13_StageMountsUnstageUnmounts ==
    \A w \in Workers :
        (stage[w].pc = "done" /\ stage[w].result = "OK" /\ stage[w].attached) =>
            /\ stage[w].op = "stage" => MountsAt(StagingPath) > 0
            /\ (stage[w].op = "unstage" /\ stage[w].again) => MountsAt(StagingPath) = 0


----------------------------------------------------------------------------
(* ControllerExpandVolume *)

\* req.VolumeId of a ControllerExpandVolume request
ExpandRequestIds == {"", "v1", "v2"}

\* sizes in gigabytes of the volume before the request
ExpandSizes == {1, 2}

MutExpandNoopFirst(status, desired, current) ==
    IF desired <= current THEN "noop"
    ELSE IF status = "resizing" THEN "Aborted"
    ELSE IF status # "available" THEN "FailedPrecondition"
    ELSE "resize"

MutExpandAnyStatus(status, desired, current) ==
    IF status = "resizing" THEN "Aborted"
    ELSE IF desired <= current THEN "noop"
    ELSE "resize"

\* what ControllerExpandVolume does with the volume it fetched, in the order
\* of its checks
ExpandDecision(status, desired, current) ==
    IF status = "resizing" THEN "Aborted"
    ELSE IF desired <= current THEN "noop"
    ELSE IF status # "available" THEN "FailedPrecondition"
    ELSE "resize"

ExpandDone(res) == [expand EXCEPT !.pc = "done", !.result = res]

\* the check of req.VolumeId
ExpandBegin ==
    /\ expand.pc = "idle" /\ lifecycleStarted < MaxLifecycleCalls
    /\ lifecycleStarted' = lifecycleStarted + 1
    /\ \E id \in ExpandRequestIds, range \in CapRanges :
          expand' = IF id = ""
                    THEN [NoExpand EXCEPT !.pc = "done", !.range = range, !.result = "InvalidArgument"]
                    ELSE [NoExpand EXCEPT !.pc = "get", !.id = id, !.range = range]
    /\ UNCHANGED <<volumes, del, deleted, resizeCalls, notLifecycle>>

\* GetVolume, the check of the capacity range, and the checks on the volume
ExpandGetVolume ==
    /\ expand.pc = "get"
    /\ \E r \in GetVolumeOutcomes(expand.id) :
          expand' =
             IF r.kind # "ok" THEN ExpandDone("Internal")
             ELSE IF ~expand.range.present
             THEN [ExpandDone("InvalidArgument") EXCEPT !.fetched = TRUE]
             ELSE LET desired == DesiredSize(expand.range)
                      current == volumes[expand.id].size
                      e == [expand EXCEPT !.fetched = TRUE, !.desired = desired,
                                          !.current = current, !.status = r.status]
                      what == ExpandDecision(r.status, desired, current) IN
                  CASE what = "noop" ->
                          [e EXCEPT !.pc = "done", !.result = "OK", !.capacityGB = current,
                                    !.nodeExpansionRequired = TRUE]
                    [] what = "resize" -> [e EXCEPT !.pc = "resize"]
                    [] OTHER -> [e EXCEPT !.pc = "done", !.result = what]
    /\ UNCHANGED <<volumes, del, deleted, resizeCalls, lifecycleStarted, notLifecycle>>

\* d.CivoClient.ResizeVolume: the provider takes the request and starts to
\* resize, or the call fails; its error is not looked at
ExpandResizeVolume ==
    /\ expand.pc = "resize"
    /\ resizeCalls' = resizeCalls + 1
    /\ \/ /\ expand.id \in DOMAIN volumes
          /\ volumes' = [volumes EXCEPT ![expand.id].status = "resizing",
                                        ![expand.id].size = expand.desired]
          /\ expand' = [expand EXCEPT !.pc = "wait", !.resizes = expand.resizes + 1,
                                      !.resized = "ok"]
       \/ /\ UNCHANGED volumes
          /\ expand' = [expand EXCEPT !.pc = "wait", !.resizes = expand.resizes + 1,
                                      !.resized = "error"]
    /\ UNCHANGED <<del, deleted, lifecycleStarted, notLifecycle>>

\* waitForVolumeStatus(volume, "available", CivoVolumeAvailableRetries*2)
ExpandWait ==
    /\ expand.pc = "wait"
    /\ IF testMode
       THEN expand' = [expand EXCEPT !.pc = "refetch"]
       ELSE IF expand.tries < CivoVolumeAvailableRetries * 2
       THEN \E r \in GetVolumeOutcomes(expand.id) :
               LET e == [expand EXCEPT !.reads = expand.reads + 1] IN
               expand' = IF r.kind # "ok" THEN [e EXCEPT !.pc = "done", !.result = "Error"]
                         ELSE IF StatusReached(r.status, "available")
                         THEN [e EXCEPT !.pc = "refetch", !.seen = r.status]
                         ELSE [e EXCEPT !.tries = expand.tries + 1, !.seen = r.status]
       ELSE expand' = ExpandDone("Error")
    /\ UNCHANGED <<volumes, del, deleted, resizeCalls, lifecycleStarted, notLifecycle>>

\* the last GetVolume, whose error is not looked at: without a volume the
\* read of volume.SizeGigabytes panics
ExpandRefetch ==
    /\ expand.pc = "refetch"
    /\ \E r \in GetVolumeOutcomes(expand.id) :
          expand' = IF r.kind # "ok" THEN ExpandDone("panic")
                    ELSE [expand EXCEPT !.pc = "done", !.result = "OK",
                                        !.capacityGB = volumes[expand.id].size,
                                        !.nodeExpansionRequired = TRUE]
    /\ UNCHANGED <<volumes, del, deleted, resizeCalls, lifecycleStarted, notLifecycle>>

ControllerExpandVolume ==
    \/ ExpandBegin
    \/ ExpandGetVolume
    \/ ExpandResizeVolume
    \/ ExpandWait
    \/ ExpandRefetch

\* the RPC has answered
ExpandReturn ==
    /\ expand.pc = "done"
    /\ expand' = NoExpand
    /\ UNCHANGED <<volumes, del, deleted, resizeCalls, lifecycleStarted, notLifecycle>>

\* the provider finishes a resize
ProviderResizes ==
    /\ \E id \in DOMAIN volumes :
          /\ volumes[id].status = "resizing"
          /\ volumes' = [volumes EXCEPT ![id].status = "available"]
    /\ UNCHANGED <<lifecycleVars, notLifecycle>>

InitExpand ==
    /\ volumes \in {<<>>} \cup
          {(VolId :> [VolRec(s, "") EXCEPT !.size = z]) : s \in Statuses, z \in ExpandSizes}
    /\ IdleLifecycle /\ IdleMain
    /\ testMode \in BOOLEAN
    /\ quota = [DiskGigabytesLimit |-> 0, DiskGigabytesUsage |-> 0,
                DiskVolumeCountLimit |-> 0, DiskVolumeCountUsage |-> 0]
    /\ create = [w \in Workers |-> NoCreate]
    /\ createStarted = 0
    /\ first = [n \in CreateNames |-> NoFirst]
    /\ ctl = NoCall /\ IdleHanging /\ IdlePreStop /\ IdleNode

NextExpand ==
    \/ ControllerExpandVolume
    \/ ExpandReturn
    \/ ProviderResizes

SpecExpand == InitExpand /\ [][NextExpand]_vars


\* the call has answered after it fetched the volume and worked out the size
\* asked for
ExpandDecided == expand.pc = "done" /\ expand.fetched /\ expand.range.present

\* C14 as stated: for any volume, a request with desired_gb <= current_gb is a
\* successful no-op that returns the current size with node expansion
\* required and issues no resize call.
C14_ExpandNoLargerIsNoop ==
    (ExpandDecided /\ expand.desired <= expand.current) =>
        /\ expand.result = "OK"
        /\ expand.capacityGB = expand.current /\ expand.nodeExpansionRequired
        /\ expand.resizes = 0

\* C14 amended: for any volume whose fetched status is not resizing, a request
\* with desired_gb <= current_gb is a successful no-op that returns the
\* current size with node expansion required and issues no resize call; for a
\* volume that is resizing the answer is Aborted, without a resize call.
C14_ExpandNoLargerIsNoopUnlessResizing ==
    (ExpandDecided /\ expand.desired <= expand.current) =>
        /\ expand.resizes = 0
        /\ IF expand.status = "resizing"
           THEN expand.result = "Aborted"
           ELSE /\ expand.result = "OK"
                /\ expand.capacityGB = expand.current /\ expand.nodeExpansionRequired

\* a no-op answer for a volume that is attached
C14_Witness ==
    /\ ExpandDecided /\ expand.desired <= expand.current
    /\ expand.status = "attached" /\ expand.result = "OK"

\* C15: a resize call is issued only for a fetched status of available and
\* desired_gb > current_gb; with desired_gb > current_gb the answer is Aborted
\* for a resizing volume and FailedPrecondition for any other status that is
\* not available, and the volume keeps its size.
C15_ResizeOnlyWhenAvailableAndLarger ==
    /\ expand.resizes > 0 => (expand.status = "available" /\ expand.desired > expand.current)
    /\ (ExpandDecided /\ expand.desired > expand.current /\ expand.status # "available") =>
          /\ expand.result = (IF expand.status = "resizing" THEN "Aborted" ELSE "FailedPrecondition")
          /\ expand.resizes = 0
          /\ volumes[expand.id].size = expand.current

\* a larger size was asked for an attached volume and refused
C15_Witness ==
    /\ ExpandDecided /\ expand.desired > expand.current
    /\ expand.status = "attached" /\ expand.result = "FailedPrecondition"

\* C16: when ControllerExpandVolume returns success for desired_gb >
\* current_gb, the provider's volume has the size desired_gb and the response
\* carries it with node expansion required; a resize call that failed is
\* never answered with success.
C16_ExpandSuccessMeansResized ==
    (ExpandDecided /\ expand.result = "OK" /\ expand.desired > expand.current) =>
        /\ volumes[expand.id].size = expand.desired
        /\ expand.capacityGB = expand.desired /\ expand.nodeExpansionRequired
        /\ expand.resized # "error"


\* C17: when the wait for the status runs out of retries, CreateVolume, on
\* the path of the existing volume and on the path of the new one, answers
\* with the gRPC status Unavailable.
C17_ExhaustedWaitIsUnavailable ==
    \A w \in Workers :
        (create[w].pc = "done" /\ create[w].endedBy = "exhausted") =>
            create[w].result = "Unavailable"

\* C18: once the context of the request is cancelled, the wait for the status
\* makes no further read of the provider.
C18_CancelledWaitStopsPolling ==
    [][\A w \in Workers :
          (create[w].pc = "wait" /\ create[w].cancelled) =>
              create'[w].reads = create[w].reads]_vars

\* C19: a read of the provider that fails inside the wait for the status does
\* not end the RPC while retries remain.
C19_FailedPollIsRetried ==
    \A w \in Workers :
        (create[w].pc = "done" /\ create[w].endedBy = "read_error") =>
            create[w].tries + 1 >= CivoVolumeAvailableRetries


\* C20: when the orchestrator answers that the node is not found, PreStop
\* neither returns early nor fails: it goes on to subscribe to the
\* VolumeAttachment events and to wait, as for a drained node.
C20_NodeNotFoundStillWaits ==
    (hook.node = "notfound" /\ hook.pc = "returned") => hook.via # "node"


\* C21: for a node that exists and carries no unschedulable taint, also one
\* with other taints only, PreStop returns nil at once: it subscribes to no
\* events, starts no informer and lists no VolumeAttachments, whatever
\* attachments of this node exist.
C21_UndrainedNodeReturnsAtOnce ==
    (hook.node = "node" /\ "node.kubernetes.io/unschedulable" \notin hook.taints) =>
        /\ hook.pc = "returned" /\ hook.result = "nil" /\ hook.via = "node"
        /\ informer.state = "created" /\ informerCh = "open"
        /\ ~hook.sawNone

\* a node with the not-ready taint only, while an attachment of this node exists
C21_Witness ==
    /\ hook.node = "node" /\ hook.taints = {"node.kubernetes.io/not-ready"}
    /\ hook.pc = "returned"
    /\ ExistsOnThisNode(attachments)


\* the elements of a sequence
Range(seq) == {seq[i] : i \in DOMAIN seq}

\* C23: whatever the provider's volumes and the PersistentVolumes are, the
\* sweep selects for deletion every listed volume that carries the driver's
\* cluster id and whose name no PersistentVolume has, and no volume whose
\* name a PersistentVolume has.
C23_SweepSelectsEveryOrphan ==
    [][(sweep.pc = "listpvs" /\ sweep'.pc = "delete") =>
          Range(sweep'.toDelete) =
             {id \in DOMAIN sweep.listed :
                 sweep.listed[id].cluster = clusterID /\ sweep.listed[id].name \notin pvs}]_vars

\* C24: a sweep ends only when it has asked the provider to delete every
\* volume it selected, also after one of the deletions failed.
C24_SweepGoesOnAfterFailedDelete ==
    sweep.pc = "done" => sweep.toDelete = <<>>


----------------------------------------------------------------------------
(* main: signals, the pre-stop subcommand, and Driver.Run *)

\* the process receives SIGINT or SIGTERM; signal.Notify hands it to main's
\* channel instead of ending the process
Signal ==
    /\ ~signalled
    /\ signalled' = TRUE
    /\ UNCHANGED <<mainCtxDone, run, probe, volumes, hangingVars, notRun>>

\* main's goroutine: sig := <-c, then cancel() of the context made in run
MainCancel ==
    /\ signalled /\ ~mainCtxDone
    /\ mainCtxDone' = TRUE
    /\ UNCHANGED <<signalled, run, probe, volumes, hangingVars, notRun>>

\* the pre-stop subcommand: run calls hook.PreStop(context.Background()), so
\* the hook's own context (ctxDone) is one nothing cancels
InitPreStopCommand == InitPreStop

NextPreStopCommand ==
    \/ PreStopBegin
    \/ waitForVolumeAttachmentsCleanup
    \/ InformerList
    \/ InformerStop
    \/ InformerDeliver
    \/ DeleteVA
    \/ UpdateVA
    \/ Signal
    \/ MainCancel

SpecPreStopCommand == InitPreStopCommand /\ [][NextPreStopCommand]_vars

\* the goroutines of the subcommand keep running; the orchestrator and the
\* sender of the signal are under no obligation
FairPreStopCommand ==
    /\ SpecPreStopCommand
    /\ WF_vars(PreStopBegin)
    /\ WF_vars(waitForVolumeAttachmentsCleanup)
    /\ WF_vars(InformerList)
    /\ WF_vars(InformerDeliver)
    /\ WF_vars(MainCancel)

\* C22: in the pre-stop subcommand a termination signal cancels the context
\* the hook waits on, so once SIGINT or SIGTERM has arrived the subcommand
\* returns, also while VolumeAttachments of the node still exist.
C22_SignalEndsPreStopCommand == signalled ~> hook.pc = "returned"


\* the most RPCs the gRPC server has in flight in the model
MaxInflight == 1

\* Run up to eg.Wait: the left-over socket is removed and the listener made,
\* or Run returns the error; then the server and the two goroutines start
RunStart ==
    /\ run.pc = "idle"
    /\ \/ run' = [run EXCEPT !.pc = "returned", !.result = "Error"]
       \/ run' = [run EXCEPT !.pc = "waiting", !.grpcServer = "serving",
                             !.reconciler = "selecting"]
    /\ UNCHANGED <<signalled, mainCtxDone, probe, volumes, hangingVars, notRun>>

\* the server takes up an RPC; GracefulStop lets those in flight finish
RpcBegin ==
    /\ run.grpcServer = "serving" /\ run.inflight < MaxInflight
    /\ run' = [run EXCEPT !.inflight = @ + 1]
    /\ UNCHANGED <<signalled, mainCtxDone, probe, volumes, hangingVars, notRun>>

\* Probe, the RPC in flight: the provider is reachable or not at that moment,
\* and Probe answers with an empty response and no error
Probe ==
    /\ run.inflight > 0
    /\ \E pingErr \in BOOLEAN :
          probe' = [called |-> TRUE, pingErr |-> pingErr, err |-> "nil", ready |-> "unset"]
    /\ run' = [run EXCEPT !.inflight = @ - 1]
    /\ UNCHANGED <<signalled, mainCtxDone, volumes, hangingVars, notRun>>

\* <-ctx.Done(), then d.grpcServer.GracefulStop(): no new RPC is accepted
GracefulStop ==
    /\ mainCtxDone /\ run.grpcServer = "serving"
    /\ run' = [run EXCEPT !.grpcServer = "stopping"]
    /\ UNCHANGED <<signalled, mainCtxDone, probe, volumes, hangingVars, notRun>>

\* d.grpcServer.Serve returns: nil once a graceful stop has drained the RPCs,
\* an error when the listener fails
ServeReturns ==
    /\ \/ /\ run.grpcServer = "stopping" /\ run.inflight = 0
          /\ run' = [run EXCEPT !.grpcServer = "stopped", !.serve = "nil"]
       \/ /\ run.grpcServer = "serving" /\ run.inflight = 0
          /\ run' = [run EXCEPT !.grpcServer = "stopped", !.serve = "Error"]
    /\ UNCHANGED <<signalled, mainCtxDone, probe, volumes, hangingVars, notRun>>

\* case <-ticker.C: the reconciler calls d.FixHangingVolume
ReconcilerTick ==
    /\ run.reconciler = "selecting" /\ sweep.pc = "idle"
    /\ run' = [run EXCEPT !.reconciler = "sweeping"]
    /\ UNCHANGED <<signalled, mainCtxDone, probe, volumes, hangingVars, notRun>>

\* the steps of the sweep the reconciler is in
ReconcilerSweep == run.reconciler = "sweeping" /\ FixHangingVolume

\* FixHangingVolume returns and the loop selects again
ReconcilerLoop ==
    /\ run.reconciler = "sweeping" /\ sweep.pc = "done"
    /\ sweep' = NoSweep
    /\ run' = [run EXCEPT !.reconciler = "selecting"]
    /\ UNCHANGED <<signalled, mainCtxDone, probe, volumes, pvs, clusterID, notRun>>

\* case <-ctx.Done() of the reconciler: ctx is the loop's own
\* context.WithTimeout(context.Background(), 99999 hours), which only its
\* deadline ends
ReconcilerDeadline ==
    /\ run.reconciler = "selecting"
    /\ run' = [run EXCEPT !.reconciler = "exited"]
    /\ UNCHANGED <<signalled, mainCtxDone, probe, volumes, hangingVars, notRun>>

\* eg.Wait returns once both goroutines have returned, with the first error
RunReturns ==
    /\ run.pc = "waiting" /\ run.grpcServer = "stopped" /\ run.reconciler = "exited"
    /\ run' = [run EXCEPT !.pc = "returned", !.result = run.serve]
    /\ UNCHANGED <<signalled, mainCtxDone, probe, volumes, hangingVars, notRun>>

InitRun ==
    /\ \E ids \in SUBSET SweepVolIds :
          volumes \in [ids -> {HangRec(n, "c1") : n \in VolNames}]
    /\ pvs \in SUBSET VolNames
    /\ clusterID = "c1"
    /\ sweep = NoSweep
    /\ ctl = NoCall /\ IdlePreStop /\ IdleNode /\ IdleCreate /\ IdleLifecycle /\ IdleMain

NextRun ==
    \/ Signal
    \/ MainCancel
    \/ RunStart
    \/ RpcBegin
    \/ Probe
    \/ GracefulStop
    \/ ServeReturns
    \/ ReconcilerTick
    \/ ReconcilerSweep
    \/ ReconcilerLoop
    \/ ReconcilerDeadline
    \/ RunReturns

SpecRun == InitRun /\ [][NextRun]_vars

\* every goroutine keeps running and every RPC and provider call ends; the
\* signal, new RPCs, the ticker and the 99999-hour deadline are under no
\* obligation
FairRun ==
    /\ SpecRun
    /\ WF_vars(MainCancel)
    /\ WF_vars(RunStart)
    /\ WF_vars(Probe)
    /\ WF_vars(GracefulStop)
    /\ WF_vars(run.grpcServer = "stopping" /\ ServeReturns)
    /\ WF_vars(ReconcilerSweep)
    /\ WF_vars(ReconcilerLoop)
    /\ WF_vars(RunReturns)

\* C25: once the context passed to Run is cancelled while Run is waiting on
\* its goroutines, the gRPC server stops, the reconciler loop exits and Run
\* returns.
C25_RunReturnsAfterCancel ==
    (mainCtxDone /\ run.pc = "waiting") ~>
        (run.grpcServer = "stopped" /\ run.reconciler = "exited" /\ run.pc = "returned")

\* C26: a Probe made while the provider's ping fails returns Unavailable, and
\* one made while it succeeds returns no error and ready = true.
C26_ProbeReportsPing ==
    probe.called =>
        IF probe.pingErr THEN probe.err = "Unavailable"
        ELSE probe.err = "nil" /\ probe.ready = "true"


\* C27: a CreateVolume that finds a volume of the requested name creates
\* nothing and leaves that volume as it is; if the volume's size differs from
\* the size asked for the call returns AlreadyExists, and if the sizes are
\* equal a successful call returns that volume's id and its size as the
\* capacity, after the wait has seen it available (a driver in test mode
\* does not wait).
C27_ExistingNameBySize ==
    LET c == create[1] IN
    (c.pc = "done" /\ c.existing > 0) =>
        /\ c.made = 0
        /\ c.id \in DOMAIN volumes
        /\ volumes[c.id].name = c.name /\ volumes[c.id].size = c.existing
        /\ IF c.existing # c.desired
           THEN c.result = "AlreadyExists" /\ c.capacityGB = 0
           ELSE /\ c.result \in {"OK", "Error"}
                /\ c.result = "OK" =>
                      /\ c.id = FindByName(c.name)
                      /\ c.capacityGB = c.existing
                      /\ testMode \/ c.seen = "available"

C27_Witness ==
    LET c == create[1] IN
    /\ c.pc = "done" /\ c.existing > 0 /\ c.existing # c.desired
    /\ c.result = "AlreadyExists"
    /\ first[c.name].set /\ first[c.name].id = c.id

\* C28: a CreateVolume that finds no volume of the requested name and reads
\* the quota returns OutOfRange with the deficit, the size asked for less the
\* space left, when that size exceeds the space left, returns OutOfRange when
\* the volume count has reached its limit, and is not refused for the quota
\* otherwise; a call that finds a volume of the name never reads the quota.
C28_QuotaRefusals ==
    LET c == create[1]
        q == c.quotaSeen
        availableGB == q.DiskGigabytesLimit - q.DiskGigabytesUsage IN
    /\ c.existing > 0 => c.quotaReads = 0
    /\ c.quotaSeen # NoQuota =>
          /\ c.existing = 0 /\ ~c.found /\ c.quotaReads = 1
          /\ IF c.desired > availableGB
             THEN /\ c.pc = "done" /\ c.result = "OutOfRange"
                  /\ c.deficit = c.desired - availableGB
                  /\ c.made = 0
             ELSE IF q.DiskVolumeCountUsage >= q.DiskVolumeCountLimit
             THEN c.pc = "done" /\ c.result = "OutOfRange" /\ c.deficit = 0 /\ c.made = 0
             ELSE c.result # "OutOfRange"

C28_Witness ==
    LET c == create[1] IN
    /\ c.pc = "done" /\ c.result = "OutOfRange" /\ c.deficit > 0
    /\ c.quotaSeen.DiskVolumeCountUsage < c.quotaSeen.DiskVolumeCountLimit


----------------------------------------------------------------------------
(* Sizes and capacities: the controller serving CreateVolume,
   ControllerExpandVolume and ListVolumes, one request at a time *)

\* capacity ranges around the gigabyte boundaries, and the absent range
SizeRanges ==
    {NilRange} \cup
    {[present |-> TRUE, required |-> b, limit |-> 0] :
        b \in {1, BytesInGigabyte - 1, BytesInGigabyte, BytesInGigabyte + 1}} \cup
    {[present |-> TRUE, required |-> 0, limit |-> b] :
        b \in {0, 1, BytesInGigabyte, 2 * (BytesInGigabyte - 1) + 1}}

\* CapacityBytes: int64(v.SizeGigabytes) * BytesInGigabyte, kept in gigabytes
CapacityGB(vol) == vol.size

\* the most CreateVolume and ControllerExpandVolume requests of one run
MaxRequests == 2

\* a request in progress goes on; a new one starts while the run has requests left
MayServe(inProgress) ==
    inProgress \/ createStarted + lifecycleStarted < MaxRequests

\* no request of the three is being served
ControllerIdle ==
    create[1].pc = "idle" /\ expand.pc = "idle" /\ volumeList.pc = "idle" /\ ~sizing.set

\* the size a request's capacity range asks for, as CreateVolume and
\* ControllerExpandVolume work it out
SizeRequest ==
    /\ ControllerIdle
    /\ \E range \in SizeRanges :
          sizing' = [set |-> TRUE, range |-> range, desired |-> DesiredSize(range)]
    /\ UNCHANGED <<volumes, volumeList, capacity, snapshotVars, ctl, hangingVars, preStopVars, nodeVars,
                   createVars, lifecycleVars, mainVars>>

\* ListVolumes: a starting token is refused, the provider's volumeList may fail,
\* else one entry per volume with its id and capacity
ControllerListVolumes ==
    /\ ControllerIdle
    /\ \E startingToken \in {"", "t1"} :
          IF startingToken # ""
          THEN volumeList' = [pc |-> "done", result |-> "Aborted", entries |-> <<>>]
          ELSE \/ volumeList' = [pc |-> "done", result |-> "Error", entries |-> <<>>]
               \/ volumeList' = [pc |-> "done", result |-> "OK",
                              entries |-> [i \in DOMAIN ListVolumes |->
                                             [id |-> ListVolumes[i],
                                              capacityGB |-> CapacityGB(volumes[ListVolumes[i]])]]]
    /\ UNCHANGED <<volumes, sizing, capacity, snapshotVars, ctl, hangingVars, preStopVars, nodeVars,
                   createVars, lifecycleVars, mainVars>>

\* the answer has gone out
CapacityReturn ==
    /\ volumeList.pc = "done" \/ sizing.set
    /\ volumeList' = NoListing /\ sizing' = NoSizing
    /\ UNCHANGED <<volumes, capacity, snapshotVars, ctl, hangingVars, preStopVars, nodeVars,
                   createVars, lifecycleVars, mainVars>>

InitCapacity ==
    /\ volumes \in {<<>>} \cup
          {(VolId :> [VolRec("available", "") EXCEPT !.size = z]) : z \in ExpandSizes}
    /\ quota = [DiskGigabytesLimit |-> DiskGigabytesLimit, DiskGigabytesUsage |-> 0,
                DiskVolumeCountLimit |-> DiskVolumeCountLimit, DiskVolumeCountUsage |-> 0]
    /\ testMode \in BOOLEAN
    /\ create = [w \in Workers |-> NoCreate]
    /\ createStarted = 0
    /\ first = [n \in CreateNames |-> NoFirst]
    /\ IdleLifecycle /\ IdleMain
    /\ ctl = NoCall /\ IdleHanging /\ IdlePreStop /\ IdleNode

NextCapacity ==
    \/ SizeRequest
    \/ ControllerListVolumes
    \/ CapacityReturn
    \/ /\ expand.pc = "idle" /\ volumeList.pc = "idle" /\ ~sizing.set
       /\ MayServe(create[1].pc # "idle")
       /\ CreateVolume(1)
    \/ CreateReturn(1)
    \/ /\ create[1].pc = "idle" /\ volumeList.pc = "idle" /\ ~sizing.set
       /\ MayServe(expand.pc # "idle")
       /\ ControllerExpandVolume
    \/ ExpandReturn
    \/ ProviderSettles
    \/ ProviderResizes

SpecCapacity == InitCapacity /\ [][NextCapacity]_vars


\* C29: the size worked out for a capacity range of b >= 0 bytes is the
\* number d of gigabytes with d * 2^30 >= b > (d - 1) * 2^30, stated here as
\* 0 < b - (d - 1) * 2^30 <= 2^30, and it is DefaultVolumeSizeGB for an absent
\* range; and the capacity in every successful answer of CreateVolume,
\* ControllerExpandVolume and ListVolumes is the size in gigabytes of the
\* provider's volume of that id (times 2^30 bytes).
C29_SizesAndCapacities ==
    LET RoundedUp(range, d) ==
           IF range.present
           THEN (getVolSizeInBytes(range) - (d - 1) * BytesInGigabyte) \in 1..BytesInGigabyte
           ELSE d = DefaultVolumeSizeGB IN
    /\ sizing.set => RoundedUp(sizing.range, sizing.desired)
    /\ create[1].pc \notin {"idle", "begin"} /\ create[1].desired # 0 =>
          RoundedUp(create[1].range, create[1].desired)
    /\ expand.desired # 0 => RoundedUp(expand.range, expand.desired)
    /\ (create[1].pc = "done" /\ create[1].result = "OK") =>
          /\ create[1].id \in DOMAIN volumes
          /\ create[1].capacityGB = volumes[create[1].id].size
    /\ (expand.pc = "done" /\ expand.result = "OK") =>
          /\ expand.id \in DOMAIN volumes
          /\ expand.capacityGB = volumes[expand.id].size
    /\ volumeList.result = "OK" =>
          /\ {volumeList.entries[i].id : i \in DOMAIN volumeList.entries} = DOMAIN volumes
          /\ \A i \in DOMAIN volumeList.entries :
                volumeList.entries[i].capacityGB = volumes[volumeList.entries[i].id].size

C29_Witness ==
    /\ volumeList.result = "OK"
    /\ \E n \in CreateNames \ {""} :
          /\ first[n].set /\ ~first[n].found
          /\ first[n].range = [present |-> TRUE, required |-> 0, limit |-> BytesInGigabyte + 1]
          /\ \E i \in DOMAIN volumeList.entries :
                /\ volumeList.entries[i].id = first[n].id
                /\ volumeList.entries[i].capacityGB = 2


\* C30: ControllerExpandVolume never panics: every call that ends, also one
\* whose provider read after the resize request fails, ends with a response
\* or with an error.
C30_ExpandNeverPanics ==
    expand.pc = "done" => expand.result # "panic"


\* C37: whenever ControllerUnpublishVolume returns success, what it last saw
\* of the provider does not have the volume attached to the requested node:
\* the volume was not found, or the last read showed it available or with
\* another instance_id.
C37_UnpublishSuccessSawNotAttachedHere ==
    (ctl.op = "unpublish" /\ ctl.pc = "done" /\ ctl.result = "OK") =>
        \/ ctl.notFound /\ ctl.reads = 0
        \/ /\ ctl.reads > 0
           /\ ctl.seenStatus = "available" \/ ctl.seenInstance # ctl.node

\* success after a detach of a volume that was attached to the requested node
C37_Witness ==
    /\ ctl.op = "unpublish" /\ ctl.pc = "done" /\ ctl.result = "OK"
    /\ ctl.reads = 2 /\ ctl.detachCalls = 1
    /\ ctl.firstStatus = "attached" /\ ctl.firstInstance = ctl.node
    /\ ctl.seenStatus = "available" /\ ctl.seenInstance = ctl.node


\* C38: a CreateVolume call that returns InvalidArgument, AlreadyExists or
\* OutOfRange has made no NewVolume call and the provider holds the volumes
\* it held when the call began; a call for a block volume or for an access
\* mode that is not supported returns InvalidArgument without any provider
\* call.
C38_RefusedCreateChangesNothing ==
    LET c == create[1] IN
    /\ (c.pc = "done" /\ c.result \in {"InvalidArgument", "AlreadyExists", "OutOfRange"}) =>
          c.made = 0 /\ DOMAIN volumes = c.before
    /\ (c.pc # "idle" /\ c.caps \in {"block_single_writer", "mount_multi_writer"}) =>
          /\ c.pc = "done" /\ c.result = "InvalidArgument"
          /\ c.lists = 0 /\ c.quotaReads = 0 /\ c.made = 0 /\ c.reads = 0

\* a block volume is refused while the provider holds a volume
C38_Witness ==
    LET c == create[1] IN
    /\ c.pc = "done" /\ c.result = "InvalidArgument" /\ c.caps = "block_single_writer"
    /\ c.name # "" /\ c.before # {}


\* C39: the wait for a status ends: outside test mode it reads the volume at
\* most CivoVolumeAvailableRetries times for CreateVolume and twice as often
\* for ControllerExpandVolume, it goes on only while no read has shown the
\* status, and it gives up only after all its reads; in test mode it reads
\* nothing and never fails.
C39_SettlementLoopIsBounded ==
    LET c == create[1] IN
    /\ c.reads <= CivoVolumeAvailableRetries
    /\ expand.reads <= CivoVolumeAvailableRetries * 2
    /\ c.pc = "wait" => c.reads = c.tries /\ c.seen # "available"
    /\ expand.pc = "wait" => expand.reads = expand.tries /\ expand.seen # "available"
    /\ c.endedBy = "reached" => c.seen = "available" /\ c.result = "OK" /\ c.reads = c.tries + 1
    /\ c.endedBy = "exhausted" =>
          c.reads = CivoVolumeAvailableRetries /\ c.seen # "available" /\ c.result = "Error"
    /\ testMode => /\ c.reads = 0 /\ c.endedBy = "none"
                   /\ expand.reads = 0
                   /\ (c.pc = "done" /\ c.found) => c.result = "OK"

\* a wait that gave up after its last read
C39_Witness ==
    /\ ~testMode
    /\ create[1].endedBy = "exhausted" /\ create[1].reads = CivoVolumeAvailableRetries


----------------------------------------------------------------------------
(* GetCapacity *)

\* the largest limits and usages of the quotas GetCapacity is checked against
MaxQuotaGB == 2
MaxQuotaCount == 2

\* the quotas an account may have: a limit may be lowered below the usage
Quotas ==
    [DiskGigabytesLimit : 0..MaxQuotaGB, DiskGigabytesUsage : 0..MaxQuotaGB,
     DiskVolumeCountLimit : 0..MaxQuotaCount, DiskVolumeCountUsage : 0..MaxQuotaCount]

\* availableBytes: the space left, and 0 when the volume count is at its
\* limit; in gigabytes
AvailableGB(q) ==
    IF q.DiskVolumeCountUsage >= q.DiskVolumeCountLimit THEN 0
    ELSE q.DiskGigabytesLimit - q.DiskGigabytesUsage

\* GetCapacity: GetQuota fails, or the answer carries the available capacity
GetCapacity ==
    /\ capacity.pc = "idle"
    /\ \/ capacity' = [pc |-> "done", result |-> "Error", availableGB |-> 0]
       \/ capacity' = [pc |-> "done", result |-> "OK", availableGB |-> AvailableGB(quota)]
    /\ UNCHANGED <<volumes, volumeList, sizing, snapshotVars, ctl, hangingVars, preStopVars, nodeVars,
                   createVars, lifecycleVars, mainVars>>

\* the answer has gone out
GetCapacityReturn ==
    /\ capacity.pc = "done"
    /\ capacity' = NoCapacity
    /\ UNCHANGED <<volumes, volumeList, sizing, snapshotVars, ctl, hangingVars, preStopVars, nodeVars,
                   createVars, lifecycleVars, mainVars>>

\* the provider changes the account's quota
ProviderChangesQuota ==
    /\ capacity.pc = "idle"
    /\ \E q \in Quotas : q # quota /\ quota' = q
    /\ UNCHANGED <<volumes, capacityVars, ctl, hangingVars, preStopVars, nodeVars,
                   testMode, create, createStarted, first, lifecycleVars, mainVars>>

InitGetCapacity ==
    /\ quota \in Quotas
    /\ volumes = <<>>
    /\ testMode = FALSE
    /\ create = [w \in Workers |-> NoCreate]
    /\ createStarted = 0
    /\ first = [n \in CreateNames |-> NoFirst]
    /\ IdleLifecycle /\ IdleMain
    /\ ctl = NoCall /\ IdleHanging /\ IdlePreStop /\ IdleNode

NextGetCapacity ==
    \/ GetCapacity
    \/ GetCapacityReturn
    \/ ProviderChangesQuota

SpecGetCapacity == InitGetCapacity /\ [][NextGetCapacity]_vars

\* C40: the available capacity GetCapacity answers with is never negative,
\* whatever the quota, and is 0 whenever the volume count is at or above its
\* limit.
C40_CapacityNeverNegative ==
    capacity.result = "OK" =>
        /\ capacity.availableGB >= 0
        /\ quota.DiskVolumeCountUsage >= quota.DiskVolumeCountLimit => capacity.availableGB = 0


----------------------------------------------------------------------------
(* NodeStageVolume: what has happened before Format is invoked *)

\* C35: NodeStageVolume invokes format only after the device path resolved
\* to a non-empty path and the filesystem probe answered "no filesystem"
\* (exit code 2); with an empty path it returns NotFound, and with any other
\* failure of the probe it returns an error, in both cases without having
\* invoked format or mount.
C35_FormatOnlyAfterDefiniteNoFilesystem ==
    \A w \in Workers :
        stage[w].op = "stage" =>
            /\ stage[w].formatInvoked => (stage[w].attached /\ stage[w].blkid = "false")
            /\ (stage[w].pc = "done" /\ ~stage[w].attached /\ stage[w].result # "InvalidArgument") =>
                  (stage[w].result = "NotFound" /\ ~stage[w].formatInvoked /\ ~stage[w].mountInvoked)
            /\ stage[w].blkid = "error" =>
                  /\ stage[w].pc = "done" /\ stage[w].result = "Error"
                  /\ ~stage[w].formatInvoked /\ ~stage[w].mountInvoked

\* a call has formatted after a probe that said "no filesystem", another has
\* ended on a failed probe
C35_Witness ==
    \E w, x \in Workers :
        /\ stage[w].op = "stage" /\ stage[w].formatInvoked /\ stage[w].blkid = "false"
        /\ stage[x].op = "stage" /\ stage[x].blkid = "error" /\ stage[x].result = "Error"


\* C36: a NodeStageVolume call whose format step or mount step failed
\* returns an error: a call that returns success leaves the volume mounted
\* at the staging path.
C36_StageSuccessMeansMounted ==
    [][\A w \in Workers :
          (stage[w].pc # "done" /\ stage'[w].pc = "done"
             /\ stage'[w].op = "stage" /\ stage'[w].result = "OK") =>
              MountsAt(StagingPath)' > 0]_vars


----------------------------------------------------------------------------
(* NodeUnpublishVolume on a target path that is not there *)

\* the host's mount table: the mountpoints that carry a mount
MountTable == [p \in {q \in DOMAIN mounts : mounts[q] > 0} |-> mounts[p]]

\* C32: NodeUnpublishVolume on a target path that does not exist returns
\* success, performs no unmount and leaves the host's mount table unchanged.
\* The call ends otherwise only when findmnt itself fails, or when the path
\* has appeared with a mount on it before the removal.
C32_UnpublishOfMissingPath ==
    /\ [](\A w \in Workers :
            (stage[w].op = "unpublish" /\ stage[w].result # "InvalidArgument"
               /\ ~stage[w].targetExisted) =>
                /\ ~stage[w].unmountInvoked
                /\ stage[w].pc # "unmount"
                /\ stage[w].pc = "done" =>
                      \/ stage[w].result \in {"OK", "Error"}
                      \/ stage[w].result = "Internal" /\ stage[w].atRemove)
    /\ [][\A w \in Workers :
            (stage[w].op = "unpublish" /\ ~stage[w].targetExisted
               /\ stage'[w] # stage[w]) => MountTable' = MountTable]_vars

\* an unpublish of a missing target path has returned success while the
\* staging path carries a mount
C32_Witness ==
    \E w \in Workers :
        /\ stage[w].op = "unpublish" /\ stage[w].pc = "done" /\ stage[w].result = "OK"
        /\ ~stage[w].targetExisted /\ ~stage[w].atRemove
        /\ MountsAt(StagingPath) > 0


----------------------------------------------------------------------------
(* CreateSnapshot *)

\* the most snapshots the provider holds in the model
MaxSnapshots == 3

\* req.Name and req.SourceVolumeId; "" is a missing one
SnapshotNames == {"", "snap-a", "snap-b"}
SourceVolumes == {"", "v1", "v2"}

\* the snapshot the provider makes next
NewSnapshot(name, vol) == [id |-> Cardinality(snapshots) + 1, name |-> name, vol |-> vol]

\* the snapshots of a set in the order of a listing
InListingOrder(set) ==
    SelectSeq([i \in 1..MaxSnapshots |-> i], LAMBDA i : \E x \in set : x.id = i)

\* d.CivoClient.ListVolumeSnapshotsByVolumeID(volumeID): the snapshots of the
\* volume; the client library is not among the sources, and the double that
\* TestCreateSnapshot runs against answers with a snapshot of another volume,
\* so an answer with all snapshots is possible as well
ListVolumeSnapshotsByVolumeID(volumeID) ==
    {{x \in snapshots : x.vol = volumeID}, snapshots}

\* the snapshot with an id
SnapshotById(i) == CHOOSE x \in snapshots : x.id = i

\* the ids of the listed snapshots that carry the name, in listing order
NamedIn(listed, name) ==
    SelectSeq(InListingOrder(listed), LAMBDA i : SnapshotById(i).name = name)

\* the checks of the request
SnapshotBegin ==
    /\ snap.pc = "idle"
    /\ \E name \in SnapshotNames, source \in SourceVolumes :
          LET c == [NoSnap EXCEPT !.name = name, !.source = source] IN
          snap' = IF name = "" \/ source = ""
                  THEN [c EXCEPT !.pc = "done", !.result = "InvalidArgument"]
                  ELSE [c EXCEPT !.pc = "list"]
    /\ UNCHANGED <<snapshots, volumes, volumeList, sizing, capacity, ctl, hangingVars,
                   preStopVars, nodeVars, createVars, lifecycleVars, mainVars>>

\* the listing and the loop over it: the first snapshot with the name
\* decides, by its volume, between the answer with it and AlreadyExists
SnapshotList ==
    /\ snap.pc = "list"
    /\ LET c == [snap EXCEPT
                   !.same = (\E x \in snapshots : x.name = snap.name /\ x.vol = snap.source),
                   !.other = (\E x \in snapshots : x.name = snap.name /\ x.vol # snap.source)] IN
       \/ snap' = [c EXCEPT !.pc = "done", !.result = "Internal"]
       \/ \E listed \in ListVolumeSnapshotsByVolumeID(snap.source) :
             LET hits == NamedIn(listed, snap.name) IN
             snap' = IF hits = <<>> THEN [c EXCEPT !.pc = "create"]
                     ELSE IF SnapshotById(Head(hits)).vol = snap.source
                     THEN [c EXCEPT !.pc = "done", !.result = "OK", !.id = Head(hits)]
                     ELSE [c EXCEPT !.pc = "done", !.result = "AlreadyExists"]
    /\ UNCHANGED <<snapshots, volumes, volumeList, sizing, capacity, ctl, hangingVars,
                   preStopVars, nodeVars, createVars, lifecycleVars, mainVars>>

\* CreateVolumeSnapshot, which may fail (over quota or otherwise), then
\* GetVolumeSnapshot of the new snapshot, which may fail too
SnapshotCreate ==
    /\ snap.pc = "create"
    /\ LET c == [snap EXCEPT !.pc = "done", !.createCalled = TRUE] IN
       \/ \E e \in {"ResourceExhausted", "Internal"} :
             snap' = [c EXCEPT !.result = e] /\ UNCHANGED snapshots
       \/ /\ Cardinality(snapshots) < MaxSnapshots
          /\ snapshots' = snapshots \cup {NewSnapshot(snap.name, snap.source)}
          /\ \/ snap' = [c EXCEPT !.result = "OK", !.id = Cardinality(snapshots) + 1]
             \/ snap' = [c EXCEPT !.result = "Internal"]
    /\ UNCHANGED <<volumes, volumeList, sizing, capacity, ctl, hangingVars,
                   preStopVars, nodeVars, createVars, lifecycleVars, mainVars>>

\* the answer has gone out
SnapshotReturn ==
    /\ snap.pc = "done"
    /\ snap' = NoSnap
    /\ UNCHANGED <<snapshots, volumes, volumeList, sizing, capacity, ctl, hangingVars,
                   preStopVars, nodeVars, createVars, lifecycleVars, mainVars>>

CreateSnapshot == SnapshotBegin \/ SnapshotList \/ SnapshotCreate

\* another client of the provider makes a snapshot of a volume
ProviderCreatesSnapshot ==
    /\ snap.pc = "idle"
    /\ Cardinality(snapshots) < MaxSnapshots
    /\ \E name \in SnapshotNames \ {""}, vol \in SourceVolumes \ {""} :
          /\ ~\E x \in snapshots : x.name = name /\ x.vol = vol
          /\ snapshots' = snapshots \cup {NewSnapshot(name, vol)}
    /\ UNCHANGED <<snap, volumes, volumeList, sizing, capacity, ctl, hangingVars,
                   preStopVars, nodeVars, createVars, lifecycleVars, mainVars>>

InitSnapshot ==
    /\ volumes = <<>> /\ ctl = NoCall
    /\ IdleHanging /\ IdlePreStop /\ IdleNode /\ IdleCreate /\ IdleLifecycle /\ IdleMain

NextSnapshot ==
    \/ CreateSnapshot
    \/ SnapshotReturn
    \/ ProviderCreatesSnapshot

SpecSnapshot == InitSnapshot /\ [][NextSnapshot]_vars

\* C31: CreateSnapshot(name, source) is idempotent: when a snapshot with the
\* name exists for the source volume it is returned and no snapshot is
\* created; when one exists for another volume only, the call returns
\* AlreadyExists and creates nothing. A failed listing ends either case with
\* Internal.
C31_CreateSnapshotIdempotent ==
    (snap.pc \in {"create", "done"} /\ snap.result # "InvalidArgument") =>
        /\ snap.same =>
              /\ ~snap.createCalled /\ snap.pc = "done"
              /\ snap.result \in {"OK", "Internal"}
              /\ snap.result = "OK" =>
                    \E x \in snapshots :
                        x.id = snap.id /\ x.name = snap.name /\ x.vol = snap.source
        /\ (snap.other /\ ~snap.same) =>
              /\ ~snap.createCalled /\ snap.pc = "done"
              /\ snap.result \in {"AlreadyExists", "Internal"}


----------------------------------------------------------------------------
(* CreateVolume calls that run at once: the gRPC server serves each request
   on a goroutine of its own, and CreateVolume holds no lock *)

\* requests for a volume of the default size with a supported capability
ConcurrentCreateBegin(w) ==
    \E name \in CreateNames \ {""} :
        CreateRequest(w, name, "mount_single_writer", NilRange, "none")

InitConcurrentCreate ==
    /\ volumes = <<>>
    /\ quota = [DiskGigabytesLimit |-> 3 * DefaultVolumeSizeGB, DiskGigabytesUsage |-> 0,
                DiskVolumeCountLimit |-> DiskVolumeCountLimit, DiskVolumeCountUsage |-> 0]
    /\ testMode = TRUE
    /\ create = [w \in Workers |-> NoCreate]
    /\ createStarted = 0
    /\ first = [n \in CreateNames |-> NoFirst]
    /\ ctl = NoCall /\ IdleHanging /\ IdlePreStop /\ IdleNode /\ IdleLifecycle /\ IdleMain

NextConcurrentCreate ==
    \/ \E w \in Workers : ConcurrentCreateBegin(w)
    \/ \E w \in Workers : CreateListVolumes(w)
    \/ \E w \in Workers : CreateGetQuota(w)
    \/ \E w \in Workers : CreateNewVolume(w)
    \/ \E w \in Workers : CreateGetVolume(w)
    \/ \E w \in Workers : waitForVolumeStatus(w)
    \/ \E w \in Workers : CreateReturn(w)
    \/ ProviderSettles

SpecConcurrentCreate == InitConcurrentCreate /\ [][NextConcurrentCreate]_vars

\* C33: after any interleaving of CreateVolume calls, two at once with the
\* same name and size included, the provider holds at most one volume per
\* name, and the calls that succeed for a name return the same volume id.
C33_OneVolumePerName ==
    /\ \A name \in CreateNames : Cardinality(VolumesNamed(name)) <= 1
    /\ \A w, x \in Workers :
          (create[w].pc = "done" /\ create[w].result = "OK"
             /\ create[x].pc = "done" /\ create[x].result = "OK"
             /\ create[w].name = create[x].name) => create[w].id = create[x].id


----------------------------------------------------------------------------
(* CreateVolume while the reconciler of Driver.Run sweeps: both run in one
   process, the sweep on its ticker and the RPC on the gRPC server. The
   rounds of waitForVolumeStatus play no part in it: the driver is a test
   driver, whose wait answers at once *)

InitCreateAndSweep ==
    /\ volumes = <<>>
    /\ quota = [DiskGigabytesLimit |-> 3 * DefaultVolumeSizeGB, DiskGigabytesUsage |-> 0,
                DiskVolumeCountLimit |-> DiskVolumeCountLimit, DiskVolumeCountUsage |-> 0]
    /\ testMode = TRUE
    /\ create = [w \in Workers |-> NoCreate]
    /\ createStarted = 0
    /\ first = [n \in CreateNames |-> NoFirst]
    /\ ctl = NoCall /\ IdleHanging /\ IdlePreStop /\ IdleNode /\ IdleLifecycle /\ IdleMain

NextCreateAndSweep ==
    \/ ConcurrentCreateBegin(1)
    \/ CreateListVolumes(1)
    \/ CreateGetQuota(1)
    \/ CreateNewVolume(1)
    \/ CreateGetVolume(1)
    \/ waitForVolumeStatus(1)
    \/ CreateReturn(1)
    \/ ProviderSettles
    \/ FixHangingVolume
    \/ SweepReturn
    \/ OrchestratorChangesPV

SpecCreateAndSweep == InitCreateAndSweep /\ [][NextCreateAndSweep]_vars

\* a CreateVolume call that has not yet returned has made the volume, and no
\* PersistentVolume carries its name yet
NewlyCreated(id) ==
    \E w \in Workers :
        /\ create[w].pc \in {"get", "wait", "done"} /\ ~create[w].found
        /\ create[w].id = id /\ create[w].name \notin pvs

\* C34: a provider volume made by a CreateVolume call that is in progress or
\* has just completed, whose PersistentVolume the orchestrator has not yet
\* created, is not deleted by a FixHangingVolume sweep that runs at the same
\* time.
C34_SweepSparesNewVolumes ==
    [][\A id \in DOMAIN volumes : NewlyCreated(id) => id \in DOMAIN volumes']_vars

====
